---------------------------- MODULE Spec2Model ----------------------------
(***************************************************************************)
(* A model of the concurrent content search engine of gocreate            *)
(* (src/tools/search/search_code.go): Find, NewSearchEngine,              *)
(* SearchEngine.Search with its walker, worker, stream-closer goroutines  *)
(* and its collecting loop, searchFile, shouldSkipFile, isBinaryFile and  *)
(* HandleSearchCode.                                                      *)
(*                                                                         *)
(* Strings are sequences of one-character strings.  Go compares strings   *)
(* bytewise, so the order of two paths is the lexicographic order of      *)
(* their character codes (Code).                                          *)
(***************************************************************************)
EXTENDS Integers, Sequences, FiniteSets, TLC

\* ------------------------------------------------------------------ bounds

\* Largest MaxResults value drawn besides 0 (no ceiling) and the default.
MaxResultsBound == 2

\* Largest ContextLines value drawn.
MaxContextBound == 2

\* Number of files of the largest generated flat tree.
MaxFilesBound == 4

\* Largest MaxWorkers value drawn.
MaxWorkersBound == 2

\* Largest product of the worker count and the file count of one search of
\* a flat tree.
MaxLoadBound == 5

\* Number of commands StartCommand starts.
MaxSessionsBound == 2

\* Number of bytes one process writes to its output.
MaxOutputBound == 2

\* Number of set_config_value calls one caller makes.
MaxSetsBound == 2

\* ------------------------------------------------------- program constants

\* Find: MaxResults: 1000
DefaultMaxResults == 1000

\* Search: matchChan := make(chan SearchMatch, 1000)
MatchChanCap == 1000

\* isBinaryFile: buffer := make([]byte, 512)
SniffLen == 512

\* ----------------------------------------------------------------- strings

\* The byte value of each character that occurs in the model's strings.
Code(c) ==
    CASE c = "*" -> 42
      [] c = "." -> 46
      [] c = "/" -> 47
      [] c = "A" -> 65
      [] c = "B" -> 66
      [] c = "[" -> 91
      [] c = "a" -> 97
      [] c = "b" -> 98
      [] c = "c" -> 99
      [] c = "d" -> 100
      [] c = "e" -> 101
      [] c = "f" -> 102
      [] c = "g" -> 103
      [] c = "o" -> 111
      [] c = "r" -> 114

\* Go's s < t on strings: bytewise lexicographic order.
RECURSIVE StrLess(_, _)
StrLess(s, t) ==
    IF t = <<>> THEN FALSE
    ELSE IF s = <<>> THEN TRUE
    ELSE IF Code(Head(s)) # Code(Head(t)) THEN Code(Head(s)) < Code(Head(t))
    ELSE StrLess(Tail(s), Tail(t))

\* unicode lower-casing of one character (ASCII letters of the model).
LowerChar(c) ==
    CASE c = "A" -> "a"
      [] c = "B" -> "b"
      [] c = "D" -> "d"
      [] OTHER -> c

\* strings.ToLower
ToLower(s) == [i \in 1..Len(s) |-> LowerChar(s[i])]

\* strings.Contains(s, sub)
Contains(s, sub) ==
    \E i \in 0..(Len(s) - Len(sub)) : SubSeq(s, i + 1, i + Len(sub)) = sub

\* strings.Index(s, sub): the 0-indexed start of the first occurrence, or -1.
Index(s, sub) ==
    IF Contains(s, sub)
    THEN CHOOSE i \in 0..(Len(s) - Len(sub)) :
            /\ SubSeq(s, i + 1, i + Len(sub)) = sub
            /\ \A j \in 0..(i - 1) : SubSeq(s, j + 1, j + Len(sub)) # sub
    ELSE -1

\* strings.HasPrefix(s, prefix)
HasPrefix(s, prefix) ==
    Len(s) >= Len(prefix) /\ SubSeq(s, 1, Len(prefix)) = prefix

\* The positions of "/" in a path.
SlashAt(path) == {i \in 1..Len(path) : path[i] = "/"}

Max(S) == CHOOSE x \in S : \A y \in S : y <= x

\* os.FileInfo.Name(): the last element of the path.
BaseName(path) ==
    IF SlashAt(path) = {} THEN path
    ELSE SubSeq(path, Max(SlashAt(path)) + 1, Len(path))

\* filepath.Ext(path): the suffix of the last element from its final dot.
Ext(path) ==
    LET name == BaseName(path)
        dots == {i \in 1..Len(name) : name[i] = "."}
    IN  IF dots = {} THEN <<>> ELSE SubSeq(name, Max(dots), Len(name))

\* ----------------------------------------------------------------- pattern

\* isLiteralPattern: no regex metacharacter occurs in the pattern.
metaChars == {".", "*", "+", "?", "^", "$", "(", ")", "[", "]", "{", "}", "|", "\\"}

\* isLiteralPattern with "[" left out of its list of metacharacters.
isLiteralPatternNoBracket(pattern) ==
    \A i \in 1..Len(pattern) : pattern[i] \notin (metaChars \ {"["})

isLiteralPattern(pattern) ==
    \A i \in 1..Len(pattern) : pattern[i] \notin metaChars

\* regexp.Compile on the fragment of the syntax the model's patterns use:
\* literal characters, "." (any character) and an optional leading "(?i)"
\* flag, carried here as the record's fold field.  A "[" that no "]" closes
\* is a syntax error ("missing closing ]"); the model's alphabet has no "]".
RegexCompiles(pattern) ==
    \A i \in 1..Len(pattern) : pattern[i] # "["

\* A nil *regexp.Regexp.
NilRegexp == [valid |-> FALSE, re |-> <<>>, fold |-> FALSE]

\* A compiler that accepts every pattern.
RegexCompileLenient(pattern, fold) ==
    [valid |-> TRUE, re |-> pattern, fold |-> fold]

RegexCompile(pattern, fold) ==
    IF RegexCompiles(pattern)
    THEN [valid |-> TRUE, re |-> pattern, fold |-> fold]
    ELSE NilRegexp

\* Whether the compiled regex matches line at 0-indexed offset i.
RegexMatchesAt(rx, line, i) ==
    /\ i + Len(rx.re) <= Len(line)
    /\ \A j \in 1..Len(rx.re) :
          \/ rx.re[j] = "."
          \/ rx.re[j] = line[i + j]
          \/ rx.fold /\ LowerChar(rx.re[j]) = LowerChar(line[i + j])

\* (*regexp.Regexp).FindStringIndex(line): the start of the leftmost match,
\* or -1 when there is none (a nil location).
FindStringIndex(rx, line) ==
    LET hits == {i \in 0..Len(line) : RegexMatchesAt(rx, line, i)}
    IN  IF hits = {} THEN -1 ELSE CHOOSE i \in hits : \A k \in hits : i <= k

\* NewSearchEngine: the literal string or the compiled regex of the engine.
NewSearchEngine(config) ==
    IF isLiteralPattern(config.Pattern)
    THEN [literalSearch |-> IF config.IgnoreCase THEN ToLower(config.Pattern)
                            ELSE config.Pattern,
          pattern |-> NilRegexp]
    ELSE [literalSearch |-> <<>>,
          pattern |-> RegexCompile(config.Pattern, config.IgnoreCase)]

\* Mutant: the literal branch is taken whenever no regex is compiled, also
\* for the empty literal.
MatchColumnAnyLiteral(e, config, line) ==
    IF ~e.pattern.valid
    THEN LET searchLine == IF config.IgnoreCase THEN ToLower(line) ELSE line
         IN  Index(searchLine, e.literalSearch) + 1
    ELSE FindStringIndex(e.pattern, line) + 1

\* searchFile's matcher for one line: the 1-indexed column of the match, or
\* 0 when the line does not match.
MatchColumn(e, config, line) ==
    IF e.literalSearch # <<>>
    THEN LET searchLine == IF config.IgnoreCase THEN ToLower(line) ELSE line
         IN  Index(searchLine, e.literalSearch) + 1
    ELSE IF e.pattern.valid
    THEN FindStringIndex(e.pattern, line) + 1
    ELSE 0

\* ------------------------------------------------------------ file system

\* A tree is the sequence of the entries under the search root in the order
\* filepath.Walk visits them (pre-order, names sorted within a directory),
\* the root first.  An entry:
\*   path      the path Walk passes to the callback
\*   isDir     info.IsDir()
\*   walkErr   Walk reports an error for the entry (Lstat or ReadDir failed)
\*   readable  os.Open and the first Read succeed
\*   nulAt     1-indexed offset of the first zero byte, 0 when there is none
\*   lines     the lines bufio.Scanner yields
\*   scanErr   scanner.Err() is non-nil once those lines are read
\*   openErr   searchFile's os.Open fails (the file went away after the walk)
Entry(path, isDir, walkErr, readable, nulAt, lines, scanErr, openErr) ==
    [path |-> path, isDir |-> isDir, walkErr |-> walkErr, readable |-> readable,
     nulAt |-> nulAt, lines |-> lines, scanErr |-> scanErr, openErr |-> openErr]

Dir(path) == Entry(path, TRUE, FALSE, TRUE, 0, <<>>, FALSE, FALSE)

TextFile(path, lines) == Entry(path, FALSE, FALSE, TRUE, 0, lines, FALSE, FALSE)

\* Whether the entry at path q lies under the directory at path p.  Walk
\* joins the names to the root with filepath.Join, which drops a root ".":
\* every other relative path lies under it.
Under(q, p) ==
    IF p = <<".">> THEN q # <<".">> ELSE HasPrefix(q, p \o <<"/">>)

\* Mutant: Walk goes on with the next entry, below entry i if it has any.
SkipPastNone(t, i) == i + 1

\* The index of the first entry after i that is not under entry i.
SkipPast(t, i) ==
    LET rest == {j \in (i + 1)..Len(t) : ~Under(t[j].path, t[i].path)}
    IN  IF rest = {} THEN Len(t) + 1 ELSE CHOOSE j \in rest : \A k \in rest : j <= k

\* filepath.Match(pattern, name) on the fragment the model's filters use: "*"
\* matches any run of characters, "[" opens a class that is never closed
\* (ErrBadPattern, reported as no match), any other character matches itself.
RECURSIVE GlobMatch(_, _)
GlobMatch(pattern, name) ==
    IF pattern = <<>> THEN name = <<>>
    ELSE IF Head(pattern) = "[" THEN FALSE
    ELSE IF Head(pattern) = "*"
    THEN \E k \in 0..Len(name) :
            GlobMatch(Tail(pattern), SubSeq(name, k + 1, Len(name)))
    ELSE /\ name # <<>>
         /\ Head(name) = Head(pattern)
         /\ GlobMatch(Tail(pattern), Tail(name))

\* isBinaryFile's deny-list of extensions, as far as the model's names go.
binaryExts == {<<".", "o">>, <<".", "a">>}

\* isBinaryFile(path)
isBinaryFile(e) ==
    \/ ToLower(Ext(e.path)) \in binaryExts
    \/ ~e.readable
    \/ (e.nulAt >= 1 /\ e.nulAt <= SniffLen)

\* Mutant: a path of one element, such as the search root, is never taken
\* for hidden.
IsHiddenBelowRoot(e) ==
    SlashAt(e.path) # {} /\ HasPrefix(BaseName(e.path), <<".">>)

\* Whether the entry's name starts with a dot.
IsHidden(e) == HasPrefix(BaseName(e.path), <<".">>)

\* Mutant: shouldSkipFile without its glob filter.
shouldSkipFileNoGlob(config, e) ==
    \/ e.isDir
    \/ (~config.IncludeHidden /\ HasPrefix(BaseName(e.path), <<".">>))
    \/ ToLower(Ext(e.path)) \in {<<".", "o">>, <<".", "a">>}
    \/ ~e.readable
    \/ (e.nulAt >= 1 /\ e.nulAt <= 512)

\* shouldSkipFile(path, info)
shouldSkipFile(config, e) ==
    \/ e.isDir
    \/ (~config.IncludeHidden /\ IsHidden(e))
    \/ isBinaryFile(e)
    \/ (config.FilePattern # <<>> /\ ~GlobMatch(config.FilePattern, BaseName(e.path)))

\* ------------------------------------------------------------------ state

VARIABLES
    config,          \* SearchConfig as Find builds it from its options
    tree,            \* the file system under config.SearchPath
    pc,              \* where the caller is: HandleSearchCode -> Find -> Search
    engine,          \* SearchEngine.literalSearch, SearchEngine.pattern
    ctxDone,         \* ctx.Done() is closed
    started,         \* Search has made its channels and goroutines
    filePaths,       \* the buffered contents of the filePaths channel (each
                     \* path as the index of its entry in tree)
    filePathsClosed, \* close(filePaths) has run
    matchChan,       \* the buffered contents of matchChan
    matchChanClosed, \* close(matchChan) has run
    resultCount,     \* the shared counters of Search
    filesScanned,
    bytesScanned,
    walker,          \* the walker goroutine: [pc, idx]
    worker,          \* the worker goroutines: w -> [pc, file, lineNum, matches, ...]
    closerPc,        \* the goroutine that waits for the workers and closes matchChan
    collected,       \* results.Matches while Search collects
    sawClose,        \* the collecting loop ended because matchChan was closed
    results,         \* the *SearchResults Find returns
    err,             \* the error Find returns
    output,          \* what HandleSearchCode returns
    run,             \* history: 1 in the first search, 2 in a repetition of it
    firstMatches,    \* history: the Matches the first search returned
    firstTimedOut,   \* history: the first search's timeout expired
    scanStarted,     \* history: some worker has called searchFile
    timedOut,        \* history: the timeout of Find's context has expired
    cancelEarly,     \* history: it expired before any searchFile call
    fsTouched,       \* history: Walk, os.Open or a read has run
    enqueued,        \* history: entry -> times its path was sent on filePaths
    received,        \* history: entry -> times a worker received its path
    opened,          \* history: entry -> times searchFile opened it
    closes,          \* history: times close(filePaths) has run
    counted,         \* history: entry -> times a worker added it to filesScanned
    openedAtCeiling, \* history: searchFile was called with resultCount at the ceiling
    sentAtCeiling,   \* history: a match was sent with resultCount at the ceiling
    sessions,        \* TerminalManager.sessions: pid -> session
    mu,              \* TerminalManager.mu: who holds it
    session,         \* the TerminalSessions made by StartCommand, each with
                     \* its process and its wait goroutine
    caller,          \* the tool calls under way: c -> [pc, op, pid, ...]
    unguarded,       \* history: tm.sessions was accessed without tm.mu
    returned,        \* history: byte -> times ReadNewOutput returned it
    lastReturn,      \* what the tool call that returned in the last step returned
    configFile,      \* the file at getConfigPath()
    loadConfigOnce,  \* loadConfigOnce: not run, inside its function, done
    currentConfig,   \* currentConfig
    loadConfigErr,   \* loadConfigErr
    setter           \* the set_config_value calls under way: c -> [pc, Key, ...]

vars == <<config, tree, pc, engine, ctxDone, started, filePaths, filePathsClosed,
          matchChan, matchChanClosed, resultCount, filesScanned, bytesScanned,
          walker, worker, closerPc, collected, sawClose, results, err, output,
          run, firstMatches, firstTimedOut, scanStarted, timedOut, cancelEarly,
          fsTouched, enqueued, received, opened, counted, closes, openedAtCeiling,
          sentAtCeiling, sessions, mu, session, caller, unguarded,
          returned, lastReturn, configFile, loadConfigOnce, currentConfig,
          loadConfigErr, setter>>

\* The state of the configuration: its file and what loadConfig keeps of it.
cfgVars == <<configFile, loadConfigOnce, currentConfig, loadConfigErr, setter>>

\* The state of the terminal manager; the state of a search; and what the
\* steps of the terminal manager leave alone.
termVars ==
    <<sessions, mu, session, caller, unguarded, returned,
      lastReturn>>

findVars ==
    <<config, tree, pc, engine, ctxDone, started, filePaths, filePathsClosed,
      matchChan, matchChanClosed, resultCount, filesScanned, bytesScanned,
      walker, worker, closerPc, collected, sawClose, results, err, output,
      run, firstMatches, firstTimedOut, scanStarted, timedOut, cancelEarly,
      fsTouched, enqueued, received, opened, counted, closes, openedAtCeiling,
      sentAtCeiling>>

searchVars == <<findVars, cfgVars>>

\* What no step of a search changes.
inputVars == <<config, tree, run, firstMatches, firstTimedOut, termVars, cfgVars>>

chanVars == <<filePaths, filePathsClosed, matchChan, matchChanClosed>>

counterVars == <<resultCount, filesScanned, bytesScanned>>

callerVars == <<pc, engine, started, collected, sawClose, results, err, output>>

histVars == <<scanStarted, timedOut, cancelEarly, fsTouched>>

logVars == <<enqueued, received, opened, counted, closes, openedAtCeiling, sentAtCeiling>>

Workers == 1..config.MaxWorkers

\* Mutant: the queue has room for one path beyond twice the worker count.
FilePathsCapPlusOne == config.MaxWorkers * 2 + 1

\* filePaths := make(chan string, e.config.MaxWorkers*2)
FilePathsCap == config.MaxWorkers * 2

NoError == "nil"

InvalidRegex == "invalid regex pattern"

DeadlineExceeded == "context deadline exceeded"

NilResults == [Matches |-> <<>>, Stats |-> [FilesScanned |-> 0, BytesScanned |-> 0,
                                             MatchesFound |-> 0], isNil |-> TRUE]

IdleWorker == [pc |-> "recv", file |-> 0, lineNum |-> 0, matches |-> <<>>,
               bytesRead |-> 0, seen |-> 0, late |-> FALSE]

\* ------------------------------------------------------------- searchFile

\* Mutant: the window of context lines takes in the matched line.
ContextOfWithMatch(lines, contextLines) ==
    IF contextLines > 0 /\ Len(lines) > 0
    THEN LET start == IF Len(lines) - contextLines > 0
                      THEN Len(lines) - contextLines ELSE 0
         IN  SubSeq(lines, start + 1, Len(lines))
    ELSE <<>>

\* The context lines searchFile attaches to a match on the last of lines.
ContextOf(lines, contextLines) ==
    IF contextLines > 0 /\ Len(lines) > 0
    THEN LET start == IF Len(lines) - contextLines - 1 > 0
                      THEN Len(lines) - contextLines - 1 ELSE 0
             end == IF Len(lines) - 1 < Len(lines) - 1 + contextLines
                    THEN Len(lines) - 1 ELSE Len(lines) - 1 + contextLines
             keep == {i \in start..end : i # Len(lines) - 1}
         IN  [k \in 1..Cardinality(keep) |-> lines[start + k]]
    ELSE <<>>

\* Mutant: searchFile never advances lineNum.
MakeMatchFirstLine(e, lineNum, column) ==
    [File |-> e.path, Line |-> 1, Column |-> column,
     Content |-> e.lines[lineNum],
     Context |-> ContextOf(SubSeq(e.lines, 1, lineNum), config.ContextLines)]

\* The SearchMatch searchFile builds for line lineNum of entry e.
MakeMatch(e, lineNum, column) ==
    [File |-> e.path, Line |-> lineNum, Column |-> column,
     Content |-> e.lines[lineNum],
     Context |-> ContextOf(SubSeq(e.lines, 1, lineNum), config.ContextLines)]

\* A read of resultCount that is not atomic (searchFile's *resultCount, the
\* worker's int(resultCount)): any value the counter has held since the
\* reading worker's own last atomic operation on it.
RacyResultCount(w) == worker[w].seen..resultCount

\* Mutant: no value read is at the ceiling.
AtCeilingNever(n) == FALSE

\* Mutant: the test without its MaxResults > 0 guard.
AtCeilingUnguarded(n) == n >= config.MaxResults

\* The ceiling test both readers apply to the value they read.
AtCeiling(n) == config.MaxResults > 0 /\ n >= config.MaxResults

\* ----------------------------------------------------------------- caller

\* Find: engine := NewSearchEngine(*config); ctx gets its timeout.
FindStart ==
    /\ pc = "Find"
    /\ engine' = NewSearchEngine(config)
    /\ pc' = "Search"
    /\ UNCHANGED <<inputVars, logVars, chanVars, counterVars, histVars, ctxDone, started,
                   walker, worker, closerPc, collected, sawClose, results, err,
                   output>>

\* Search up to its collecting loop: the pattern is validated, and unless it
\* fails to compile the channels are made and the workers, the walker and the
\* closer are started.
SearchBegin ==
    /\ pc = "Search"
    /\ LET recompile == ~engine.pattern.valid /\ ~isLiteralPattern(config.Pattern)
           rx == RegexCompile(config.Pattern, config.IgnoreCase)
       IN  IF recompile /\ ~rx.valid
           THEN /\ err' = InvalidRegex
                /\ results' = NilResults
                /\ pc' = "FindReturn"
                /\ UNCHANGED <<engine, started, walker, worker, closerPc>>
           ELSE /\ engine' = IF recompile THEN [engine EXCEPT !.pattern = rx]
                             ELSE engine
                /\ started' = TRUE
                /\ worker' = [w \in Workers |-> IdleWorker]
                /\ walker' = [pc |-> "visit", idx |-> 1]
                /\ closerPc' = "wait"
                /\ pc' = "collect"
                /\ UNCHANGED <<results, err>>
    /\ UNCHANGED <<inputVars, logVars, chanVars, counterVars, histVars, ctxDone, collected,
                   sawClose, output>>

\* Mutant: the collecting loop breaks one match late.
CollectFullLate(n) == config.MaxResults > 0 /\ n > config.MaxResults

\* The collecting loop's test after appending: n matches are collected.
CollectFull(n) == config.MaxResults > 0 /\ n >= config.MaxResults

\* for match := range matchChan: one match is received and appended; the
\* loop breaks at the ceiling.
CollectRecv ==
    /\ pc = "collect"
    /\ matchChan # <<>>
    /\ collected' = Append(collected, Head(matchChan))
    /\ matchChan' = Tail(matchChan)
    /\ pc' = IF CollectFull(Len(collected')) THEN "finish" ELSE "collect"
    /\ UNCHANGED <<inputVars, logVars, counterVars, histVars, engine, ctxDone, started,
                   filePaths, filePathsClosed, matchChanClosed, walker, worker,
                   closerPc, sawClose, results, err, output>>

\* for match := range matchChan: the channel is closed and drained.
CollectClosed ==
    /\ pc = "collect"
    /\ matchChan = <<>>
    /\ matchChanClosed
    /\ sawClose' = TRUE
    /\ pc' = "finish"
    /\ UNCHANGED <<inputVars, logVars, chanVars, counterVars, histVars, engine, ctxDone,
                   started, walker, worker, closerPc, collected, results, err,
                   output>>

\* Mutant: the less function compares the paths only.
LessByFile(a, b) == StrLess(a.File, b.File)

\* The less function Search hands to sort.Slice.
Less(a, b) ==
    IF a.File = b.File THEN a.Line < b.Line ELSE StrLess(a.File, b.File)

\* sort.Slice(ms, Less): the orders of the elements at the indices I of ms
\* that an unstable sort can produce (elements that compare equal may end in
\* any order).
RECURSIVE SortedOrders(_, _)
SortedOrders(ms, I) ==
    IF I = {} THEN {<<>>}
    ELSE UNION {{<<ms[i]>> \o r : r \in SortedOrders(ms, I \ {i})} :
                   i \in {i \in I : \A j \in I : ~Less(ms[j], ms[i])}}

\* Mutant: the sort is left out.
SortSliceOmitted(ms) == {ms}

SortSlice(ms) == SortedOrders(ms, 1..Len(ms))

\* The bytes searchFile has counted for a file once it has read line n.
RECURSIVE BytesThrough(_, _)
BytesThrough(lines, n) ==
    IF n = 0 THEN 0 ELSE BytesThrough(lines, n - 1) + Len(lines[n]) + 1

\* The entry of the tree with the given path.
EntryAt(path) == tree[CHOOSE i \in 1..Len(tree) : tree[i].path = path]

\* Search's reads of filesScanned and bytesScanned are not atomic.  When the
\* loop ended on the closed channel every worker's additions happen before
\* them; when it broke at the ceiling only the additions made for the files
\* of the received matches are sure to be seen.
FilesOf(ms) == {ms[i].File : i \in 1..Len(ms)}

LastLineOf(ms, f) == Max({ms[i].Line : i \in {i \in 1..Len(ms) : ms[i].File = f}})

\* The bytes the scans of the files F had surely counted when they built the
\* matches ms.
RECURSIVE SeenBytes(_, _)
SeenBytes(F, ms) ==
    IF F = {} THEN 0
    ELSE LET f == CHOOSE f \in F : TRUE
         IN  BytesThrough(EntryAt(f).lines, LastLineOf(ms, f))
                + SeenBytes(F \ {f}, ms)

\* Mutant: the read of filesScanned may miss any addition.
StaleFilesScanned == 0..filesScanned

RacyFilesScanned ==
    IF sawClose THEN {filesScanned}
    ELSE Cardinality(FilesOf(collected))..filesScanned

RacyBytesScanned ==
    IF sawClose THEN {bytesScanned}
    ELSE SeenBytes(FilesOf(collected), collected)..bytesScanned

\* Search after its collecting loop: sort, statistics, return.
Finish ==
    /\ pc = "finish"
    /\ \E sorted \in SortSlice(collected), fs \in RacyFilesScanned,
          bs \in RacyBytesScanned :
          results' = [Matches |-> sorted,
                      Stats |-> [FilesScanned |-> fs, BytesScanned |-> bs,
                                 MatchesFound |-> Len(sorted)],
                      isNil |-> FALSE]
    /\ err' = NoError
    /\ pc' = "FindReturn"
    /\ UNCHANGED <<inputVars, logVars, chanVars, counterVars, histVars, engine, ctxDone,
                   started, walker, worker, closerPc, collected, sawClose, output>>

\* Find returns: its deferred cancel() runs when a timeout was configured.
FindReturn ==
    /\ pc = "FindReturn"
    /\ ctxDone' = (ctxDone \/ config.Timeout > 0)
    /\ pc' = "format"
    /\ UNCHANGED <<inputVars, logVars, chanVars, counterVars, histVars, engine, started,
                   walker, worker, closerPc, collected, sawClose, results, err,
                   output>>

\* The timeout of Find's context expires while Search validates or collects
\* (later, its effect is that of Find's deferred cancel).
Timeout ==
    /\ config.Timeout > 0
    /\ ~ctxDone
    /\ pc \in {"Search", "collect"}
    /\ ctxDone' = TRUE
    /\ timedOut' = TRUE
    /\ cancelEarly' = ~scanStarted
    /\ UNCHANGED <<inputVars, logVars, chanVars, counterVars, callerVars, walker, worker,
                   closerPc, scanStarted, fsTouched>>

\* ----------------------------------------------------------------- walker

\* Mutant: the walker starts the walk again after its close.
WalkerExitRestart == [pc |-> "visit", idx |-> 1]

\* The walker ends: filepath.Walk returns and the deferred close runs.
WalkerExit == [pc |-> "done", idx |-> walker.idx]

\* Mutant: the walker ends without closing filePaths.
ClosedAfterWalkMissing == FALSE

\* defer close(filePaths): whether filePaths is closed once the walker ended.
ClosedAfterWalk == TRUE

\* One call of the Walk callback up to its send, or the end of the walk.
WalkVisit ==
    /\ started
    /\ walker.pc = "visit"
    /\ fsTouched' = TRUE
    /\ closes' = IF walker.idx > Len(tree)
                     \/ (~tree[walker.idx].walkErr /\ ctxDone)
                  THEN closes + 1 ELSE closes
    /\ IF walker.idx > Len(tree)
       THEN /\ walker' = WalkerExit
            /\ filePathsClosed' = ClosedAfterWalk
       ELSE LET e == tree[walker.idx] IN
            IF e.walkErr
            THEN /\ walker' = [walker EXCEPT !.idx =
                                  IF e.isDir THEN SkipPast(tree, walker.idx)
                                  ELSE walker.idx + 1]
                 /\ UNCHANGED filePathsClosed
            ELSE IF ctxDone
            THEN /\ walker' = WalkerExit
                 /\ filePathsClosed' = ClosedAfterWalk
            ELSE IF shouldSkipFile(config, e)
            THEN /\ walker' = [walker EXCEPT !.idx =
                                  IF e.isDir /\ ~config.IncludeHidden /\ IsHidden(e)
                                  THEN SkipPast(tree, walker.idx)
                                  ELSE walker.idx + 1]
                 /\ UNCHANGED filePathsClosed
            ELSE /\ walker' = [walker EXCEPT !.pc = "send"]
                 /\ UNCHANGED filePathsClosed
    /\ UNCHANGED <<inputVars, callerVars, counterVars, ctxDone, filePaths,
                   matchChan, matchChanClosed, worker, closerPc, scanStarted,
                   timedOut, cancelEarly, enqueued, received, opened, counted,
                   openedAtCeiling, sentAtCeiling>>

\* select: case filePaths <- path.
WalkSend ==
    /\ walker.pc = "send"
    /\ Len(filePaths) < FilePathsCap
    /\ filePaths' = Append(filePaths, walker.idx)
    /\ enqueued' = [enqueued EXCEPT ![walker.idx] = @ + 1]
    /\ walker' = [pc |-> "visit", idx |-> walker.idx + 1]
    /\ UNCHANGED <<received, opened, counted, closes, openedAtCeiling, sentAtCeiling>>
    /\ UNCHANGED <<inputVars, callerVars, counterVars, histVars, ctxDone,
                   filePathsClosed, matchChan, matchChanClosed, worker, closerPc>>

\* Mutant: the walker's send has no case for ctx.Done().
WalkSendUncancellable == FALSE

\* select: case <-ctx.Done(): the callback returns ctx.Err() and Walk stops.
WalkCancelled ==
    /\ walker.pc = "send"
    /\ ctxDone
    /\ walker' = WalkerExit
    /\ filePathsClosed' = ClosedAfterWalk
    /\ closes' = closes + 1
    /\ UNCHANGED <<enqueued, received, opened, counted, openedAtCeiling, sentAtCeiling>>
    /\ UNCHANGED <<inputVars, callerVars, counterVars, histVars, ctxDone,
                   filePaths, matchChan, matchChanClosed, worker, closerPc>>

\* ---------------------------------------------------------------- workers

\* Mutant: a receive leaves the path in the channel.
DequeueKeeping(q) == q

\* What a receive leaves in a buffered channel that holds q.
Dequeue(q) == Tail(q)

\* for filePath := range filePaths: a path is received.
WorkerRecv(w) ==
    /\ worker[w].pc = "recv"
    /\ filePaths # <<>>
    /\ worker' = [worker EXCEPT ![w].pc = "check", ![w].file = Head(filePaths),
                                 ![w].late = AtCeiling(resultCount)]
    /\ filePaths' = Dequeue(filePaths)
    /\ received' = [received EXCEPT ![Head(filePaths)] = @ + 1]
    /\ UNCHANGED <<enqueued, opened, counted, closes, openedAtCeiling, sentAtCeiling>>
    /\ UNCHANGED <<inputVars, callerVars, counterVars, histVars, ctxDone,
                   filePathsClosed, matchChan, matchChanClosed, walker, closerPc>>

\* for filePath := range filePaths: the channel is closed and drained.
WorkerRangeEnd(w) ==
    /\ worker[w].pc = "recv"
    /\ filePaths = <<>>
    /\ filePathsClosed
    /\ worker' = [worker EXCEPT ![w].pc = "done"]
    /\ UNCHANGED <<inputVars, logVars, callerVars, chanVars, counterVars, histVars,
                   ctxDone, walker, closerPc>>

\* select { case <-ctx.Done(): return; default: } before searchFile.
WorkerCheck(w) ==
    /\ worker[w].pc = "check"
    /\ worker' = [worker EXCEPT ![w].pc = IF ctxDone THEN "done" ELSE "open"]
    /\ UNCHANGED <<inputVars, logVars, callerVars, chanVars, counterVars, histVars,
                   ctxDone, walker, closerPc>>

\* The call of searchFile up to its loop: os.Open; an error makes the worker
\* go on with the next path.
WorkerOpen(w) ==
    /\ worker[w].pc = "open"
    /\ scanStarted' = TRUE
    /\ fsTouched' = TRUE
    /\ opened' = [opened EXCEPT ![worker[w].file] = @ + 1]
    /\ openedAtCeiling' = (openedAtCeiling \/ worker[w].late)
    /\ UNCHANGED <<enqueued, received, counted, closes, sentAtCeiling>>
    /\ worker' = [worker EXCEPT
          ![w].pc = IF tree[worker[w].file].openErr THEN "recv" ELSE "scan",
          ![w].lineNum = 1,
          ![w].matches = <<>>,
          ![w].bytesRead = 0]
    /\ UNCHANGED <<inputVars, callerVars, chanVars, counterVars, ctxDone, walker,
                   closerPc, timedOut, cancelEarly>>

\* Mutant: the worker takes searchFile's result whatever its error.
ScanErrorIgnored(e) == FALSE

\* searchFile returns scanner.Err() of entry e, and the worker skips the file.
ScanError(e) == e.scanErr

\* searchFile: scanner.Scan() and one turn of its loop, or its return.  A
\* return with an error (cancellation, scanner.Err()) makes the worker drop
\* the file; a return without one takes it to the counters.
WorkerScan(w) ==
    /\ worker[w].pc = "scan"
    /\ LET e == tree[worker[w].file]
           n == worker[w].lineNum
       IN  IF n > Len(e.lines)
           THEN worker' = [worker EXCEPT
                   ![w].pc = IF ScanError(e) THEN "recv" ELSE "count"]
           ELSE IF ctxDone
           THEN worker' = [worker EXCEPT ![w].pc = "recv"]
           ELSE LET column == MatchColumn(engine, config, e.lines[n])
                    bytes == worker[w].bytesRead + Len(e.lines[n]) + 1
                IN  IF column > 0
                    THEN \E rc \in RacyResultCount(w) :
                            IF AtCeiling(rc)
                            THEN worker' = [worker EXCEPT
                                    ![w].pc = "count",
                                    ![w].bytesRead = bytes]
                            ELSE worker' = [worker EXCEPT
                                    ![w].lineNum = n + 1,
                                    ![w].bytesRead = bytes,
                                    ![w].matches =
                                        Append(@, MakeMatch(e, n, column))]
                    ELSE worker' = [worker EXCEPT
                            ![w].lineNum = n + 1,
                            ![w].bytesRead = bytes]
    /\ UNCHANGED <<inputVars, logVars, callerVars, chanVars, counterVars, histVars,
                   ctxDone, walker, closerPc>>

\* atomic.AddInt64(&filesScanned, 1); atomic.AddInt64(&bytesScanned, fileBytes)
WorkerCount(w) ==
    /\ worker[w].pc = "count"
    /\ filesScanned' = filesScanned + 1
    /\ bytesScanned' = bytesScanned + worker[w].bytesRead
    /\ counted' = [counted EXCEPT ![worker[w].file] = @ + 1]
    /\ worker' = [worker EXCEPT
          ![w].pc = IF worker[w].matches = <<>> THEN "recv" ELSE "emit"]
    /\ UNCHANGED <<enqueued, received, opened, closes, openedAtCeiling, sentAtCeiling>>
    /\ UNCHANGED <<inputVars, callerVars, chanVars, histVars, ctxDone,
                   resultCount, walker, closerPc>>

\* select: case matchChan <- match.
WorkerSend(w) ==
    /\ worker[w].pc = "emit"
    /\ Len(matchChan) < MatchChanCap
    /\ ~matchChanClosed
    /\ matchChan' = Append(matchChan, Head(worker[w].matches))
    /\ worker' = [worker EXCEPT ![w].pc = "add", ![w].matches = Tail(@)]
    /\ sentAtCeiling' = (sentAtCeiling \/ AtCeiling(resultCount))
    /\ UNCHANGED <<enqueued, received, opened, counted, closes, openedAtCeiling>>
    /\ UNCHANGED <<inputVars, callerVars, counterVars, histVars, ctxDone,
                   filePaths, filePathsClosed, matchChanClosed, walker, closerPc>>

\* select: case <-ctx.Done(): return.
WorkerCancelled(w) ==
    /\ worker[w].pc = "emit"
    /\ ctxDone
    /\ worker' = [worker EXCEPT ![w].pc = "done"]
    /\ UNCHANGED <<inputVars, logVars, callerVars, chanVars, counterVars, histVars,
                   ctxDone, walker, closerPc>>

\* atomic.AddInt64(&resultCount, 1)
WorkerAdd(w) ==
    /\ worker[w].pc = "add"
    /\ resultCount' = resultCount + 1
    /\ worker' = [worker EXCEPT ![w].pc = "ceiling", ![w].seen = resultCount + 1]
    /\ UNCHANGED <<inputVars, logVars, callerVars, chanVars, histVars, ctxDone,
                   filesScanned, bytesScanned, walker, closerPc>>

\* if e.config.MaxResults > 0 && int(resultCount) >= e.config.MaxResults
WorkerCeiling(w) ==
    /\ worker[w].pc = "ceiling"
    /\ \E rc \in RacyResultCount(w) :
          worker' = [worker EXCEPT
             ![w].pc = IF AtCeiling(rc) THEN "done"
                       ELSE IF worker[w].matches = <<>> THEN "recv" ELSE "emit"]
    /\ UNCHANGED <<inputVars, logVars, callerVars, chanVars, counterVars, histVars,
                   ctxDone, walker, closerPc>>

\* Mutant: the closer does not wait for the workers.
WaitGroupDoneEarly == TRUE

\* wg.Wait() returns: every worker has run its deferred wg.Done().
WaitGroupDone == \A w \in DOMAIN worker : worker[w].pc = "done"

\* wg.Wait(); close(matchChan)
CloseMatchChan ==
    /\ closerPc = "wait"
    /\ WaitGroupDone
    /\ matchChanClosed' = TRUE
    /\ closerPc' = "done"
    /\ UNCHANGED <<inputVars, logVars, callerVars, counterVars, histVars, ctxDone,
                   filePaths, filePathsClosed, matchChan, walker, worker>>

\* -------------------------------------------------------- HandleSearchCode

\* strconv's decimal form of a number, as fmt's %d prints it.
Digit(d) ==
    CASE d = 0 -> "0" [] d = 1 -> "1" [] d = 2 -> "2" [] d = 3 -> "3"
      [] d = 4 -> "4" [] d = 5 -> "5" [] d = 6 -> "6" [] d = 7 -> "7"
      [] d = 8 -> "8" [] d = 9 -> "9"

RECURSIVE Itoa(_)
Itoa(n) == IF n < 10 THEN <<Digit(n)>> ELSE Itoa(n \div 10) \o <<Digit(n % 10)>>

RECURSIVE ContextText(_, _)
ContextText(file, context) ==
    IF context = <<>> THEN <<>>
    ELSE file \o <<"-">> \o Head(context) \o <<"\n">>
            \o ContextText(file, Tail(context))

\* What HandleSearchCode writes to its strings.Builder for the matches ms.
RECURSIVE MatchesText(_)
MatchesText(ms) ==
    IF ms = <<>> THEN <<>>
    ELSE LET m == Head(ms)
         IN  m.File \o <<":">> \o Itoa(m.Line) \o <<":">> \o m.Content \o <<"\n">>
                \o ContextText(m.File, m.Context) \o MatchesText(Tail(ms))

\* Mutant: the trailing newline is kept.
TrimNewlineOmitted(s) == s

\* strings.TrimSuffix(s, "\n")
TrimNewline(s) ==
    IF s # <<>> /\ s[Len(s)] = "\n" THEN SubSeq(s, 1, Len(s) - 1) ELSE s

\* The text "Search timed out." as one token.
TimedOutText == <<"Search timed out.">>

\* HandleSearchCode after Find has returned (results, e).
HandlerResult(res, e) ==
    IF e # NoError
    THEN IF e = DeadlineExceeded
         THEN [text |-> TimedOutText, err |-> NoError]
         ELSE [text |-> <<>>, err |-> "search failed"]
    ELSE IF Len(res.Matches) = 0
    THEN [text |-> <<>>, err |-> NoError]
    ELSE [text |-> TrimNewline(MatchesText(res.Matches)), err |-> NoError]

Format ==
    /\ pc = "format"
    /\ output' = HandlerResult(results, err)
    /\ pc' = "done"
    /\ UNCHANGED <<inputVars, logVars, chanVars, counterVars, histVars, engine, ctxDone,
                   started, walker, worker, closerPc, collected, sawClose,
                   results, err>>

\* ------------------------------------------------------ command validation

\* The characters quotes, expansions and separators are written with.
SglQuote == "'"
DblQuote == "\""
Dollar == "$"
Semicolon == ";"
Space == " "

\* The pieces of s between the occurrences of the character sep.
RECURSIVE SplitOn(_, _)
SplitOn(s, sep) ==
    IF \A i \in 1..Len(s) : s[i] # sep
    THEN <<s>>
    ELSE LET i == CHOOSE i \in 1..Len(s) :
                     s[i] = sep /\ \A j \in 1..(i - 1) : s[j] # sep
         IN  <<SubSeq(s, 1, i - 1)>> \o SplitOn(SubSeq(s, i + 1, Len(s)), sep)

\* How often the character c occurs in s.
CountOf(s, c) == Cardinality({i \in 1..Len(s) : s[i] = c})

\* parser.Parse(reader, ""): a quote without its closing quote is a syntax
\* error.  (The commands drawn have no separator inside a quotation.)
ParseFails(commandStr) ==
    \/ CountOf(commandStr, SglQuote) % 2 = 1
    \/ CountOf(commandStr, DblQuote) % 2 = 1

\* cmd.Args[0] of each syntax.CallExpr of the parsed file, in the order of
\* syntax.Walk: the first word of each statement that has one.
CallNames(commandStr) ==
    LET stmts == SplitOn(commandStr, Semicolon)
        words(k) == SelectSeq(SplitOn(stmts[k], Space), LAMBDA w : w # <<>>)
        calls == SelectSeq([k \in 1..Len(stmts) |-> words(k)],
                           LAMBDA ws : ws # <<>>)
    IN  [k \in 1..Len(calls) |-> calls[k][1]]

\* The word is one quotation by q around a literal.
QuotedLit(word, q) ==
    /\ Len(word) >= 2
    /\ word[1] = q
    /\ word[Len(word)] = q
    /\ \A i \in 2..(Len(word) - 1) : word[i] \notin {SglQuote, DblQuote, Dollar}

\* cmdName: the value of the word when it has one part that is a *syntax.Lit,
\* a *syntax.SglQuoted or a *syntax.DblQuoted around one literal; "" when it
\* cannot be resolved.
CmdName(word) ==
    IF \A i \in 1..Len(word) : word[i] \notin {SglQuote, DblQuote, Dollar}
    THEN word
    ELSE IF QuotedLit(word, SglQuote) \/ QuotedLit(word, DblQuote)
    THEN SubSeq(word, 2, Len(word) - 1)
    ELSE <<>>

\* The result of isCommandBlockedComplex.
Verdict(blocked, name) == [blocked |-> blocked, name |-> name]

\* The "invalid syntax: ..." text returned for a string that does not parse.
InvalidSyntax == <<"invalid syntax">>

\* Mutant: a validation that lets every command pass.
NothingBlocked(commandStr, blockedList) == Verdict(FALSE, <<>>)

\* isCommandBlockedComplex(ctx, commandStr, blockedCommands)
isCommandBlockedComplex(commandStr, blockedList) ==
    IF Len(blockedList) = 0
    THEN Verdict(FALSE, <<>>)
    ELSE IF ParseFails(commandStr)
    THEN Verdict(TRUE, InvalidSyntax)
    ELSE LET names == CallNames(commandStr)
             hits == {k \in 1..Len(names) :
                        /\ CmdName(names[k]) # <<>>
                        /\ \E b \in 1..Len(blockedList) :
                              blockedList[b] = ToLower(CmdName(names[k]))}
         IN  IF hits = {}
             THEN Verdict(FALSE, <<>>)
             ELSE Verdict(TRUE,
                          CmdName(names[CHOOSE k \in hits :
                                            \A j \in hits : k <= j]))

\* ------------------------------------------------------- terminal manager

\* The tool calls that run concurrently.
Callers == {1, 2}

\* The process ids the system hands out.
PIDs == {1, 2}

\* The sessions StartCommand creates, in the order of their creation.
SessionIds == 1..MaxSessionsBound

\* A *TerminalSession made outside StartCommand, around a command that was
\* never started: its Cmd.Process is nil.
Unstarted == 0

\* The bytes the process of session s writes: <<s, k>> is its k-th.
AllBytes == SessionIds \X (1..MaxOutputBound)

\* tm.mu: free, or held by a tool call or by the wait goroutine of a session.
Free == [kind |-> "free", id |-> 0]
ByCaller(c) == [kind |-> "caller", id |-> c]
ByWaiter(s) == [kind |-> "waiter", id |-> s]

\* A bytes.Buffer: its backing array and the number of unread bytes in it.
EmptyBuffer == [arr |-> <<>>, len |-> 0]

\* Buffer.Bytes(): the unread part.
Bytes(b) == SubSeq(b.arr, 1, b.len)

\* Buffer.Reset(): the length drops to zero, the array stays.
Reset(b) == [b EXCEPT !.len = 0]

\* The buffer with what lies behind its unread part forgotten: once no slice
\* of an earlier Bytes() is left, nothing can read it.
Unaliased(b) == [b EXCEPT !.arr = SubSeq(b.arr, 1, b.len)]

\* Buffer.Write of one byte: it lands behind the unread part.
Write(b, x) ==
    [arr |-> IF b.len < Len(b.arr)
             THEN [b.arr EXCEPT ![b.len + 1] = x]
             ELSE Append(b.arr, x),
     len |-> b.len + 1]

\* A TerminalSession and the process and goroutine that go with it.
NoSession ==
    [pid |-> 0, state |-> "none", Stdout |-> EmptyBuffer, Stderr |-> EmptyBuffer,
     written |-> 0, Done |-> <<>>, doneClosed |-> FALSE, sends |-> 0,
     waiter |-> "none", added |-> FALSE]

\* What a tool call returns.
Result(text, e) == [text |-> text, err |-> e]
NoResult == Result(<<>>, "none")
NotFoundSilent == Result(<<>>, NoError)
NotFound == Result(<<"not found or already completed">>, "not found")
ProcessNotFound == Result(<<"process not found for session">>, "process not found")
FailedToTerminate == Result(<<"failed to terminate process">>, "failed to terminate")
SignalSent == Result(<<"Termination signal sent">>, NoError)
ConfigError == Result(<<"Error loading configuration for validation">>, "config")
StartError == Result(<<"Error starting command">>, "start")
Started == Result(<<"Command started in background with PID">>, NoError)
Blocked(name) == Result(<<"Command execution blocked">> \o name, NoError)
Done == Result(<<>>, NoError)

\* A tool call at rest.
IdleCaller ==
    [pc |-> "idle", op |-> "none", pid |-> 0, sid |-> 0,
     stdoutBytes |-> <<>>, stderrBytes |-> <<>>]

\* What the step just taken returned, and from which call.
Return(op, r) == [op |-> op, ret |-> r]

\* The step just taken was not the return of a call.
NoReturn == Return("none", NoResult)

\* The state of GetManager()'s manager before any tool call.
TermIdle ==
    /\ sessions = <<>>
    /\ mu = Free
    /\ session = [s \in SessionIds |-> NoSession]
    /\ caller = [c \in Callers |-> IdleCaller]
    /\ unguarded = FALSE
    /\ returned = [x \in AllBytes |-> 0]
    /\ lastReturn = NoReturn

\* Caller c is inside the call op with the given pid and session.
Enter(c, op, nextPc, pid, sid) ==
    [caller EXCEPT ![c] = [IdleCaller EXCEPT !.pc = nextPc, !.op = op,
                                             !.pid = pid, !.sid = sid]]

\* Caller c is at rest again.
Leave(c) == [caller EXCEPT ![c] = IdleCaller]

\* delete(tm.sessions, pid)
Delete(m, pid) == [p \in DOMAIN m \ {pid} |-> m[p]]

\* tm.sessions[pid] = session
Store(m, pid, s) == [p \in DOMAIN m \cup {pid} |-> IF p = pid THEN s ELSE m[p]]

\* A step reads or writes tm.sessions while tm.mu is held by holder: is the
\* holder the thread t that takes the step?
Access(t, holder) == unguarded' = (unguarded \/ holder # t)

\* ---- ReadNewOutput

\* The buffers of the session sid (those of an unstarted command are empty).
StdoutOf(sid) == IF sid = Unstarted THEN EmptyBuffer ELSE session[sid].Stdout
StderrOf(sid) == IF sid = Unstarted THEN EmptyBuffer ELSE session[sid].Stderr

\* tm.mu.Lock(); session, exists := tm.sessions[pid]; without a session,
\* return "", fmt.Errorf(...) and the deferred Unlock; with one,
\* stdoutBytes := session.Stdout.Bytes(); stderrBytes := session.Stderr.Bytes()
ReadNewOutput(c, pid) ==
    /\ caller[c].pc = "idle"
    /\ mu = Free
    /\ Access(ByCaller(c), ByCaller(c))
    /\ IF pid \in DOMAIN sessions
       THEN /\ mu' = ByCaller(c)
            /\ caller' = [Enter(c, "read", "read_reset", pid, sessions[pid])
                             EXCEPT ![c].stdoutBytes = Bytes(StdoutOf(sessions[pid])),
                                    ![c].stderrBytes = Bytes(StderrOf(sessions[pid]))]
            /\ lastReturn' = NoReturn
       ELSE /\ mu' = mu
            /\ caller' = Leave(c)
            /\ lastReturn' = Return("read", NotFound)
    /\ UNCHANGED <<searchVars, sessions, session, returned>>

\* session.Stdout.Reset(); session.Stderr.Reset()
ReadReset(c) ==
    /\ caller[c].pc = "read_reset"
    /\ LET s == caller[c].sid
       IN  session' = IF s = Unstarted THEN session
                      ELSE [session EXCEPT ![s].Stdout = Reset(@),
                                           ![s].Stderr = Reset(@)]
    /\ caller' = [caller EXCEPT ![c].pc = "read_return"]
    /\ UNCHANGED <<searchVars, sessions, mu, unguarded, returned>>
    /\ lastReturn' = NoReturn

\* string(bytes): the slice Bytes() returned shares the buffer's array, so a
\* Write after the Reset shows through it when it went into the same array,
\* and does not when the buffer had to grow into a new one.
StringOf(bytes, b) ==
    {bytes} \cup (IF Len(b.arr) >= Len(bytes)
                  THEN {SubSeq(b.arr, 1, Len(bytes))}
                  ELSE {})

\* The number of times x has been returned, counted up to two.
Count(seq, x) == Cardinality({i \in 1..Len(seq) : seq[i] = x})
Returning(text) ==
    [x \in AllBytes |->
        IF returned[x] + Count(text, x) > 2 THEN 2
        ELSE returned[x] + Count(text, x)]

\* output := string(stdoutBytes) + string(stderrBytes); return output, nil;
\* the deferred Unlock
ReadReturn(c) ==
    /\ caller[c].pc = "read_return"
    /\ \E out \in StringOf(caller[c].stdoutBytes, StdoutOf(caller[c].sid)),
          er \in StringOf(caller[c].stderrBytes, StderrOf(caller[c].sid)) :
          /\ lastReturn' = Return("read", Result(out \o er, NoError))
          /\ returned' = Returning(out \o er)
    /\ LET s == caller[c].sid
       IN  session' = IF s = Unstarted THEN session
                      ELSE [session EXCEPT ![s].Stdout = Unaliased(@),
                                           ![s].Stderr = Unaliased(@)]
    /\ caller' = Leave(c)
    /\ mu' = Free
    /\ UNCHANGED <<searchVars, sessions, unguarded>>

\* ---- TerminateSession

\* tm.mu.Lock(); session, exists := tm.sessions[pid];
\* process := session.Cmd.Process; each branch unlocks tm.mu.
TerminateSession(c, pid) ==
    /\ caller[c].pc = "idle"
    /\ mu = Free
    /\ Access(ByCaller(c), ByCaller(c))
    /\ IF pid \notin DOMAIN sessions
       THEN /\ caller' = Leave(c)
            /\ lastReturn' = Return("terminate", NotFound)
       ELSE /\ caller' = Enter(c, "terminate",
                               IF sessions[pid] = Unstarted
                               THEN "term_delete" ELSE "term_signal",
                               pid, sessions[pid])
            /\ lastReturn' = NoReturn
    /\ UNCHANGED <<searchVars, sessions, mu, session, returned>>

\* process == nil: tm.mu.Unlock() has run; delete(tm.sessions, pid)
TerminateDelete(c) ==
    /\ caller[c].pc = "term_delete"
    /\ Access(ByCaller(c), mu)
    /\ sessions' = Delete(sessions, caller[c].pid)
    /\ caller' = Leave(c)
    /\ lastReturn' = Return("terminate", ProcessNotFound)
    /\ UNCHANGED <<searchVars, mu, session, returned>>

\* process.Signal(os.Interrupt), then process.Kill(): both fail on a process
\* that Wait has reaped; one of them reaches a process that has not been,
\* which ends by it unless it ignores the interrupt.
TerminateSignal(c) ==
    /\ caller[c].pc = "term_signal"
    /\ LET s == caller[c].sid
       IN  IF session[s].state = "reaped"
           THEN /\ lastReturn' = Return("terminate", FailedToTerminate)
                /\ UNCHANGED session
           ELSE /\ lastReturn' = Return("terminate", SignalSent)
                /\ \/ session' = [session EXCEPT ![s].state = "exited"]
                   \/ UNCHANGED session
    /\ caller' = Leave(c)
    /\ UNCHANGED <<searchVars, sessions, mu, unguarded, returned>>

\* ---- ListActiveSessions, GetSession, AddSession

\* tm.mu.Lock(); for pid, session := range tm.sessions { ... }; the deferred
\* Unlock
ListActiveSessions(c) ==
    /\ caller[c].pc = "idle"
    /\ mu = Free
    /\ Access(ByCaller(c), ByCaller(c))
    /\ lastReturn' = Return("list", Done)
    /\ UNCHANGED <<searchVars, sessions, mu, session, caller, returned>>

\* tm.mu.Lock(); session, exists := tm.sessions[pid]; the deferred Unlock
GetSession(c, pid) ==
    /\ caller[c].pc = "idle"
    /\ mu = Free
    /\ Access(ByCaller(c), ByCaller(c))
    /\ lastReturn' = Return("get", Done)
    /\ UNCHANGED <<searchVars, sessions, mu, session, caller, returned>>

\* AddSession called from outside StartCommand with a session around a
\* command that was never started.
AddUnstarted(c, pid) ==
    /\ caller[c].pc = "idle"
    /\ mu = Free
    /\ Access(ByCaller(c), ByCaller(c))
    /\ sessions' = Store(sessions, pid, Unstarted)
    /\ lastReturn' = Return("add", Done)
    /\ UNCHANGED <<searchVars, mu, session, caller, returned>>

\* StartCommand's tm.AddSession(session.PID, session): tm.mu.Lock();
\* tm.sessions[pid] = session; the deferred Unlock
AddSession(c) ==
    /\ caller[c].pc = "add"
    /\ mu = Free
    /\ Access(ByCaller(c), ByCaller(c))
    /\ sessions' = Store(sessions, caller[c].pid, caller[c].sid)
    /\ caller' = [caller EXCEPT ![c].pc = "spawn"]
    /\ session' = [session EXCEPT ![caller[c].sid].added = TRUE]
    /\ UNCHANGED <<searchVars, mu, returned>>
    /\ lastReturn' = NoReturn

\* ---- HandleExecuteCommand, StartCommand

\* The command strings the tool is called with.
Commands ==
    { <<"c", "d">>,                           \* cd
      <<"d", "d">>,                           \* dd
      <<"D", "d">>,                           \* Dd
      <<"c", "d", ";", "d", "d">>,            \* cd;dd
      <<"c", "d", " ", "d", "d">>,            \* cd dd
      <<"'", "d", "d", "'">>,                 \* 'dd'
      <<"$", "b">>,                           \* $b
      <<"'", "d", "d">> }                     \* 'dd

\* defaultBlockedCommands, cut down to one name.
DefaultBlockedCommands == << <<"d", "d">> >>

\* cfg.BlockedCommands as the configuration file gives it.
BlockedLists == {<<>>, DefaultBlockedCommands}

\* The pids of processes that have not been waited for.
LivePids == {session[s].pid : s \in {s \in SessionIds :
                                        session[s].state \in {"running", "exited"}}}

\* The sessions not made yet.
Unused == {s \in SessionIds : session[s].state = "none"}

\* cmd.Start() succeeds: the process runs under a pid no live process has and
\* writes into the session's buffers; session.PID = cmd.Process.Pid
StartCommand(c) ==
    /\ Unused # {}
    /\ LET s == CHOOSE s \in Unused : \A t \in Unused : s <= t
       IN  \E pid \in PIDs \ LivePids :
              /\ session' = [session EXCEPT ![s] =
                                [NoSession EXCEPT !.pid = pid, !.state = "running"]]
              /\ caller' = Enter(c, "execute", "add", pid, s)
    /\ lastReturn' = NoReturn

\* cmd.Start() fails: return -1, err
StartFails(c) ==
    /\ lastReturn' = Return("execute", StartError)
    /\ UNCHANGED <<session, caller>>

\* HandleExecuteCommand up to cmd.Start(): config.GetCurrentConfig, the
\* validation, and for a command that passes it the start of the process.
HandleExecuteCommand(c, commandStr, blockedCommands) ==
    /\ caller[c].pc = "idle"
    /\ \E loaded \in BOOLEAN :
          LET v == isCommandBlockedComplex(commandStr, blockedCommands)
          IN  IF ~loaded
              THEN /\ lastReturn' = Return("execute", ConfigError)
                   /\ UNCHANGED <<session, caller>>
              ELSE IF v.blocked
              THEN /\ lastReturn' = Return("execute", Blocked(v.name))
                   /\ UNCHANGED <<session, caller>>
              ELSE StartCommand(c) \/ StartFails(c)
    /\ UNCHANGED <<searchVars, sessions, mu, unguarded, returned>>

\* go func() { ... }(); return session.PID, nil
Spawn(c) ==
    /\ caller[c].pc = "spawn"
    /\ session' = [session EXCEPT ![caller[c].sid].waiter = "wait"]
    /\ lastReturn' = Return("execute", Started)
    /\ caller' = Leave(c)
    /\ UNCHANGED <<searchVars, sessions, mu, unguarded, returned>>

\* ---- the process and the goroutine that waits for it

\* The process writes its next byte to stdout or to stderr; exec's copying
\* goroutine appends it to the session's buffer, holding no lock.
ProcessWrites(s) ==
    /\ session[s].state = "running"
    /\ session[s].written < MaxOutputBound
    /\ LET x == <<s, session[s].written + 1>>
       IN  \/ session' = [session EXCEPT ![s].Stdout = Write(@, x),
                                         ![s].written = @ + 1]
           \/ session' = [session EXCEPT ![s].Stderr = Write(@, x),
                                         ![s].written = @ + 1]
    /\ UNCHANGED <<searchVars, sessions, mu, caller, unguarded,
                   returned>>
    /\ lastReturn' = NoReturn

\* The process ends, by itself or by a signal.
ProcessExits(s) ==
    /\ session[s].state = "running"
    /\ session' = [session EXCEPT ![s].state = "exited"]
    /\ UNCHANGED <<searchVars, sessions, mu, caller, unguarded,
                   returned>>
    /\ lastReturn' = NoReturn

\* err := cmd.Wait()
WaitReturns(s) ==
    /\ session[s].waiter = "wait"
    /\ session[s].state = "exited"
    /\ session' = [session EXCEPT ![s].state = "reaped", ![s].waiter = "send"]
    /\ UNCHANGED <<searchVars, sessions, mu, caller, unguarded,
                   returned>>
    /\ lastReturn' = NoReturn

\* Mutant: nothing is sent on Done.
DoneSendOmitted(s) ==
    /\ session[s].waiter = "send"
    /\ session' = [session EXCEPT ![s].waiter = "close"]
    /\ UNCHANGED <<searchVars, sessions, mu, caller, unguarded,
                   returned>>
    /\ lastReturn' = NoReturn

\* session.Done <- err (Done has room for one value)
DoneSend(s) ==
    /\ session[s].waiter = "send"
    /\ Len(session[s].Done) < 1
    /\ session' = [session EXCEPT ![s].Done = Append(@, "err"),
                                  ![s].sends = @ + 1,
                                  ![s].waiter = "close"]
    /\ UNCHANGED <<searchVars, sessions, mu, caller, unguarded,
                   returned>>
    /\ lastReturn' = NoReturn

\* close(session.Done)
DoneClose(s) ==
    /\ session[s].waiter = "close"
    /\ ~session[s].doneClosed
    /\ session' = [session EXCEPT ![s].doneClosed = TRUE, ![s].waiter = "remove"]
    /\ UNCHANGED <<searchVars, sessions, mu, caller, unguarded,
                   returned>>
    /\ lastReturn' = NoReturn

\* tm.RemoveSession(session.PID): tm.mu.Lock(); delete(tm.sessions, pid);
\* the deferred Unlock
RemoveSession(s) ==
    /\ session[s].waiter = "remove"
    /\ mu = Free
    /\ Access(ByWaiter(s), ByWaiter(s))
    /\ sessions' = Delete(sessions, session[s].pid)
    /\ session' = [session EXCEPT ![s].waiter = "end"]
    /\ UNCHANGED <<searchVars, mu, caller, returned>>
    /\ lastReturn' = NoReturn

\* ------------------------------------------------------------ configuration

\* A JSON value: a string, an array of strings or a number.  A number is
\* hi * 2^53 + n, so that the integers json.Unmarshal cannot keep apart in a
\* float64 can be told from those it can.
Str(name) == [t |-> "string", s |-> <<name>>, hi |-> 0, n |-> 0]
List(names) == [t |-> "array", s |-> names, hi |-> 0, n |-> 0]
Number(hi, n) == [t |-> "number", s |-> <<>>, hi |-> hi, n |-> n]

\* json.Unmarshal into interface{}: a number becomes a float64.  From 2^53
\* on a float64 holds the even integers only; an odd one goes to the
\* neighbour whose mantissa is even.
Float64(v) ==
    IF v.t = "number" /\ v.hi = 1 /\ v.n % 2 = 1
    THEN Number(1, IF v.n % 4 = 1 THEN v.n - 1 ELSE v.n + 1)
    ELSE v

\* The keys of the configuration file: the one execute_command is validated
\* against and one ServerConfig does not know.
Keys == {"blockedCommands", "x"}

\* The file: absent, not readable, or present with a content that is not a
\* JSON value, the JSON null or a JSON object.
NoFile == [kind |-> "absent", object |-> <<>>]
Unreadable == [kind |-> "unreadable", object |-> <<>>]
Invalid == [kind |-> "invalid", object |-> <<>>]
Null == [kind |-> "null", object |-> <<>>]
Object(m) == [kind |-> "object", object |-> m]

\* The JSON object with the one member k: v, and an object with one more.
Member(k, v) == [key \in {k} |-> v]
With(m, k, v) == [key \in DOMAIN m \cup {k} |-> IF key = k THEN v ELSE m[key]]

\* json.Unmarshal(content, &config) with config a map[string]interface{}, and
\* json.MarshalIndent(config, "", "  ") of such a map.
Unmarshal(m) == [k \in DOMAIN m |-> Float64(m[k])]
MarshalIndent(m) == m

\* ServerConfig.BlockedCommands of an object: the member must be an array of
\* strings; a missing member gives the empty slice.
BlockedCommandsOf(m) ==
    IF "blockedCommands" \in DOMAIN m THEN m["blockedCommands"].s ELSE <<>>

\* json.Unmarshal(content, &cfg) with cfg a ServerConfig fails.
UnmarshalFails(f) ==
    \/ f.kind = "invalid"
    \/ /\ f.kind = "object"
       /\ "blockedCommands" \in DOMAIN f.object
       /\ f.object["blockedCommands"].t # "array"

\* *ServerConfig: nil, or a configuration with its BlockedCommands.
NilConfig == [isNil |-> TRUE, BlockedCommands |-> <<>>]
ServerConfig(blockedList) == [isNil |-> FALSE, BlockedCommands |-> blockedList]

\* The file loadConfig and HandleGetConfig write when there is none.
DefaultFile == Object(Member("blockedCommands", List(DefaultBlockedCommands)))

\* The errors of loadConfig.
ReadError == "error reading config file"
UnmarshalError == "error unmarshalling config file"

\* What HandleSetConfigValue returns.
SetDone == Result(<<"Configuration value set successfully.">>, NoError)
SetReadError == Result(<<"Error reading configuration file for update">>, "read")
SetParseError == Result(<<"Error parsing configuration file for update">>, "parse")
SetWriteError == Result(<<"Error writing configuration file">>, "write")
SetPanic == Result(<<"panic: assignment to entry in nil map">>, "panic")

\* A set_config_value call at rest.
IdleSetter ==
    [pc |-> "idle", Key |-> "", Value |-> Str(<<>>), config |-> <<>>,
     before |-> NoFile, calls |-> 0, ret |-> NoResult]

\* The configuration before any tool call, without a file.
ConfigIdle ==
    /\ configFile = NoFile
    /\ loadConfigOnce = "new"
    /\ currentConfig = NilConfig
    /\ loadConfigErr = NoError
    /\ setter = [c \in Callers |-> IdleSetter]

\* ---- HandleSetConfigValue

\* The call of c with key and value ends before its write and returns r.
Refused(c, key, value, r) ==
    [setter EXCEPT ![c] =
        [pc |-> "idle", Key |-> key, Value |-> value, config |-> <<>>,
         before |-> configFile, calls |-> setter[c].calls + 1, ret |-> r]]

\* HandleSetConfigValue up to its write: os.ReadFile, json.Unmarshal,
\* config[args.Key] = args.Value.  A file that is not there counts as {}.
SetRead(c, key, value) ==
    /\ setter[c].pc = "idle"
    /\ setter[c].calls < MaxSetsBound
    /\ IF configFile.kind = "unreadable"
       THEN /\ lastReturn' = Return("set_config_value", SetReadError)
            /\ setter' = Refused(c, key, value, SetReadError)
       ELSE IF configFile.kind = "invalid"
       THEN /\ lastReturn' = Return("set_config_value", SetParseError)
            /\ setter' = Refused(c, key, value, SetParseError)
       ELSE IF configFile.kind = "null"
       THEN /\ lastReturn' = Return("set_config_value", SetPanic)
            /\ setter' = Refused(c, key, value, SetPanic)
       ELSE /\ lastReturn' = NoReturn
            /\ setter' = [setter EXCEPT ![c] =
                  [pc |-> "write", Key |-> key, Value |-> value,
                   config |-> With(Unmarshal(configFile.object), key, value),
                   before |-> configFile, calls |-> setter[c].calls + 1,
                   ret |-> NoResult]]
    /\ UNCHANGED <<configFile, loadConfigOnce, currentConfig, loadConfigErr>>
    /\ UNCHANGED <<sessions, mu, session, caller, unguarded, returned>>
    /\ UNCHANGED findVars

\* json.MarshalIndent and os.WriteFile(configPath, updatedConfigJson, 0644),
\* and the return.
SetWrite(c) ==
    /\ setter[c].pc = "write"
    /\ \/ /\ configFile' = Object(MarshalIndent(setter[c].config))
          /\ lastReturn' = Return("set_config_value", SetDone)
          /\ setter' = [setter EXCEPT ![c].pc = "idle", ![c].ret = SetDone]
       \/ /\ configFile.kind = "absent"
          /\ configFile' = configFile
          /\ lastReturn' = Return("set_config_value", SetWriteError)
          /\ setter' = [setter EXCEPT ![c].pc = "idle", ![c].ret = SetWriteError]
    /\ UNCHANGED <<loadConfigOnce, currentConfig, loadConfigErr>>
    /\ UNCHANGED <<sessions, mu, session, caller, unguarded, returned>>
    /\ UNCHANGED findVars

\* ---- loadConfig, GetCurrentConfig

\* Mutant: the function of loadConfigOnce.Do runs on every call.
OnceFreshAlways == loadConfigOnce # "inside"

\* loadConfigOnce.Do(f) runs f: no call of Do has run it before.
OnceFresh == loadConfigOnce = "new"

\* The first GetCurrentConfig: the function of loadConfigOnce.Do up to its
\* write of the default file.  Calls that come while it runs wait in Do.
LoadConfig ==
    /\ OnceFresh
    /\ IF configFile.kind = "absent"
       THEN /\ loadConfigOnce' = "inside"
            /\ UNCHANGED <<currentConfig, loadConfigErr>>
       ELSE IF configFile.kind = "unreadable"
       THEN /\ loadConfigOnce' = "done"
            /\ currentConfig' = NilConfig
            /\ loadConfigErr' = ReadError
       ELSE IF UnmarshalFails(configFile)
       THEN /\ loadConfigOnce' = "done"
            /\ currentConfig' = NilConfig
            /\ loadConfigErr' = UnmarshalError
       ELSE /\ loadConfigOnce' = "done"
            /\ currentConfig' = ServerConfig(BlockedCommandsOf(configFile.object))
            /\ loadConfigErr' = NoError
    /\ lastReturn' = NoReturn
    /\ UNCHANGED <<configFile, setter>>
    /\ UNCHANGED <<sessions, mu, session, caller, unguarded, returned>>
    /\ UNCHANGED findVars

\* _ = os.MkdirAll(...); _ = os.WriteFile(configPath, configJson, 0644);
\* currentConfig = &cfg: the default is used whether or not it was written.
LoadWriteDefault ==
    /\ loadConfigOnce = "inside"
    /\ configFile' \in {DefaultFile, configFile}
    /\ currentConfig' = ServerConfig(DefaultBlockedCommands)
    /\ loadConfigOnce' = "done"
    /\ lastReturn' = NoReturn
    /\ UNCHANGED <<loadConfigErr, setter>>
    /\ UNCHANGED <<sessions, mu, session, caller, unguarded, returned>>
    /\ UNCHANGED findVars

\* HandleExecuteCommand once loadConfig has run: GetCurrentConfig returns
\* currentConfig and loadConfigErr, and the command is validated against
\* cfg.BlockedCommands.
ExecuteCommand(c, commandStr) ==
    /\ loadConfigOnce = "done"
    /\ HandleExecuteCommand(c, commandStr, currentConfig.BlockedCommands)
    /\ (lastReturn' = Return("execute", ConfigError)) <=> (loadConfigErr # NoError)

\* ----------------------------------------------------------- initial states

Root == <<"r">>

FileNames == <<"a", "b", "c", "d", "e", "f", "g">>

\* The contents of the files of the flat trees, in turn: two matching lines
\* around one that does not match "a", one matching line, no line at all.
FlatContents ==
    << << <<"b", "a">>, <<"b">>, <<"a">> >>,
       << <<"a">> >>,
       << >> >>

\* The tree of a directory r with the n files r/a, r/b, ...
FlatTree(n) ==
    <<Dir(Root)>> \o
    [i \in 1..n |-> TextFile(Root \o <<"/", FileNames[i]>>,
                             FlatContents[((i - 1) % Len(FlatContents)) + 1])]

\* A tree with one entry of each kind the classifier and the scanner tell
\* apart, in Walk's order.
MixedTree ==
    << Dir(Root),
       TextFile(Root \o <<"/", ".", "b">>, << <<"a">> >>),
       Dir(Root \o <<"/", ".", "d">>),
       TextFile(Root \o <<"/", ".", "d", "/", "a">>, << <<"a">> >>),
       TextFile(Root \o <<"/", "a">>, << <<"A">>, <<"b", "a">>, <<"b">>, <<"a", "b">> >>),
       TextFile(Root \o <<"/", "a", ".", "o">>, << <<"a">> >>),
       Entry(Root \o <<"/", "b">>, FALSE, FALSE, TRUE, 4, << <<"a">> >>, FALSE, FALSE),
       Entry(Root \o <<"/", "c">>, FALSE, FALSE, FALSE, 0, << <<"a">> >>, FALSE, FALSE),
       Entry(Root \o <<"/", "d">>, FALSE, TRUE, TRUE, 0, << <<"a">> >>, FALSE, FALSE),
       Entry(Root \o <<"/", "e">>, FALSE, FALSE, TRUE, SniffLen + 1,
             << <<"b">>, <<"a">> >>, FALSE, FALSE),
       Entry(Root \o <<"/", "f">>, FALSE, FALSE, TRUE, 0, << <<"a">> >>, TRUE, FALSE),
       Entry(Root \o <<"/", "g">>, FALSE, FALSE, TRUE, 0, << <<"a">> >>, FALSE, TRUE) >>

\* A search root that does not exist: Walk reports the Lstat error.
MissingRoot == << Entry(Root, FALSE, TRUE, FALSE, 0, <<>>, FALSE, FALSE) >>

\* A directory whose only file has no line.
EmptyFileTree == << Dir(Root), TextFile(Root \o <<"/", "a">>, <<>>) >>

\* A search root whose own name starts with a dot (".", "..", ".config").
HiddenRootTree ==
    << Dir(<<".", "d">>), TextFile(<<".", "d", "/", "a">>, << <<"a">> >>) >>

\* The search root ".": Walk passes "." for the root and "a", "b", "b/a" for
\* what lies under it.
DotRootTree ==
    << Dir(<<".">>),
       TextFile(<<"a">>, << <<"a">> >>),
       Dir(<<"b">>),
       TextFile(<<"b", "/", "a">>, << <<"a">> >>) >>

\* A literal, the empty pattern, a regex, a pattern that does not compile.
Patterns == { <<"a">>, <<>>, <<".", "a">>, <<"[", "a">> }

\* No filter, a filter, a malformed filter.
FilePatterns == { <<>>, <<"a", "*">>, <<"[">> }

MaxResultsValues == (0..MaxResultsBound) \cup {DefaultMaxResults}

\* The MaxResults values that set no ceiling: WithMaxResults(0) and a
\* negative argument.
NoCeilingValues == {0 - 1, 0}

Config(pattern, workers, maxResults, ignoreCase, filePattern, contextLines, includeHidden, timeout) ==
    [Pattern |-> pattern, MaxWorkers |-> workers, MaxResults |-> maxResults,
     IgnoreCase |-> ignoreCase, FilePattern |-> filePattern,
     ContextLines |-> contextLines, IncludeHidden |-> includeHidden,
     Timeout |-> timeout]

\* Searches for "a" in the flat trees, without context lines: every worker
\* count, every ceiling, with and without a timeout.
ConcurrentInputs ==
    \E n \in 0..MaxFilesBound, w \in 0..MaxWorkersBound :
        /\ w * n <= MaxLoadBound
        /\ tree = FlatTree(n)
        /\ \E m \in MaxResultsValues \cup NoCeilingValues, t \in {0, 1} :
              config = Config(<<"a">>, w, m, FALSE, <<>>, 0, FALSE, t)

\* Searches of the mixed tree by one worker: every pattern and option.
OptionInputs ==
    /\ tree = MixedTree
    /\ \E p \in Patterns, i \in BOOLEAN, f \in FilePatterns,
          k \in 0..MaxContextBound, h \in BOOLEAN, t \in {0, 1} :
          config = Config(p, 1, DefaultMaxResults, i, f, k, h, t)

\* The state in which Find is called.
FindCalled ==
    /\ pc = "Find"
    /\ engine = [literalSearch |-> <<>>, pattern |-> NilRegexp]
    /\ ctxDone = FALSE
    /\ started = FALSE
    /\ filePaths = <<>>
    /\ filePathsClosed = FALSE
    /\ matchChan = <<>>
    /\ matchChanClosed = FALSE
    /\ resultCount = 0
    /\ filesScanned = 0
    /\ bytesScanned = 0
    /\ walker = [pc |-> "none", idx |-> 0]
    /\ worker = <<>>
    /\ closerPc = "none"
    /\ collected = <<>>
    /\ sawClose = FALSE
    /\ results = NilResults
    /\ err = NoError
    /\ output = [text |-> <<>>, err |-> NoError]
    /\ scanStarted = FALSE
    /\ timedOut = FALSE
    /\ cancelEarly = FALSE
    /\ fsTouched = FALSE
    /\ enqueued = [i \in 1..Len(tree) |-> 0]
    /\ received = [i \in 1..Len(tree) |-> 0]
    /\ opened = [i \in 1..Len(tree) |-> 0]
    /\ counted = [i \in 1..Len(tree) |-> 0]
    /\ closes = 0
    /\ openedAtCeiling = FALSE
    /\ sentAtCeiling = FALSE

FirstRun ==
    /\ run = 1
    /\ firstMatches = <<>>
    /\ firstTimedOut = FALSE

InitState ==
    /\ FindCalled
    /\ FirstRun
    /\ TermIdle
    /\ ConfigIdle

\* Searches of a missing root, of a tree with only an empty file, of a root
\* with a dot name and of the root ".".
EdgeInputs ==
    /\ tree \in {MissingRoot, EmptyFileTree, HiddenRootTree, DotRootTree}
    /\ \E p \in Patterns, w \in 0..MaxWorkersBound, m \in MaxResultsValues,
          t \in {0, 1} :
          config = Config(p, w, m, FALSE, <<>>, 0, FALSE, t)

Init == (ConcurrentInputs \/ OptionInputs \/ EdgeInputs) /\ InitState

WorkerStep(w) ==
    \/ WorkerRecv(w)
    \/ WorkerRangeEnd(w)
    \/ WorkerCheck(w)
    \/ WorkerOpen(w)
    \/ WorkerScan(w)
    \/ WorkerCount(w)
    \/ WorkerSend(w)
    \/ WorkerCancelled(w)
    \/ WorkerAdd(w)
    \/ WorkerCeiling(w)

Next ==
    \/ FindStart
    \/ SearchBegin
    \/ CollectRecv
    \/ CollectClosed
    \/ Finish
    \/ FindReturn
    \/ Format
    \/ Timeout
    \/ WalkVisit
    \/ WalkSend
    \/ WalkCancelled
    \/ CloseMatchChan
    \/ \E w \in DOMAIN worker : WorkerStep(w)

Spec == Init /\ [][Next]_vars

\* ------------------------------------------------------- a repeated search

\* The same search is run again on the same tree once the first has returned
\* its result.  The goroutines the first search may have left behind work on
\* its own channels, counters and context, so they are out of the picture.
Rerun ==
    /\ pc = "done"
    /\ run = 1
    /\ err = NoError
    /\ run' = 2
    /\ firstMatches' = results.Matches
    /\ firstTimedOut' = timedOut
    /\ pc' = "Find"
    /\ engine' = [literalSearch |-> <<>>, pattern |-> NilRegexp]
    /\ ctxDone' = FALSE
    /\ started' = FALSE
    /\ filePaths' = <<>>
    /\ filePathsClosed' = FALSE
    /\ matchChan' = <<>>
    /\ matchChanClosed' = FALSE
    /\ resultCount' = 0
    /\ filesScanned' = 0
    /\ bytesScanned' = 0
    /\ walker' = [pc |-> "none", idx |-> 0]
    /\ worker' = <<>>
    /\ closerPc' = "none"
    /\ collected' = <<>>
    /\ sawClose' = FALSE
    /\ results' = NilResults
    /\ err' = NoError
    /\ output' = [text |-> <<>>, err |-> NoError]
    /\ scanStarted' = FALSE
    /\ timedOut' = FALSE
    /\ cancelEarly' = FALSE
    /\ fsTouched' = FALSE
    /\ enqueued' = [i \in 1..Len(tree) |-> 0]
    /\ received' = [i \in 1..Len(tree) |-> 0]
    /\ opened' = [i \in 1..Len(tree) |-> 0]
    /\ counted' = [i \in 1..Len(tree) |-> 0]
    /\ closes' = 0
    /\ openedAtCeiling' = FALSE
    /\ sentAtCeiling' = FALSE
    /\ UNCHANGED <<config, tree, termVars, cfgVars>>

\* The searches of the flat trees that are repeated, and those checked for
\* termination.
RepeatedInputs ==
    \E n \in 0..MaxFilesBound, w \in 0..MaxWorkersBound :
        /\ w * n < MaxLoadBound
        /\ tree = FlatTree(n)
        /\ \E m \in MaxResultsValues, t \in {0, 1} :
              config = Config(<<"a">>, w, m, FALSE, <<>>, 0, FALSE, t)

InitTwice == RepeatedInputs /\ InitState

NextTwice == Next \/ Rerun

SpecTwice == InitTwice /\ [][NextTwice]_vars

\* ---------------------------------------------------------------- fairness

\* The Go scheduler runs every goroutine that can take a step: the caller,
\* the walker, the closer and each worker.  Nothing is assumed of the timer.
CallerStep ==
    FindStart \/ SearchBegin \/ CollectRecv \/ CollectClosed \/ Finish
        \/ FindReturn \/ Format

WalkerStep == WalkVisit \/ WalkSend \/ WalkCancelled

Fairness ==
    /\ WF_vars(CallerStep)
    /\ WF_vars(WalkerStep)
    /\ WF_vars(CloseMatchChan)
    /\ \A w \in 1..MaxWorkersBound : WF_vars(w \in DOMAIN worker /\ WorkerStep(w))

FairSpec == InitTwice /\ [][Next]_vars /\ Fairness

\* --------------------------------------------- the terminal manager at work

\* The manager after GetManager() made it, with the blocked commands of the
\* configuration file; no search is under way.
TermInit ==
    /\ tree = MissingRoot
    /\ config = Config(<<"a">>, 1, DefaultMaxResults, FALSE, <<>>, 0, FALSE, 0)
    /\ FindCalled
    /\ FirstRun
    /\ TermIdle
    /\ ConfigIdle

\* The command and the configuration of the tool calls that are made for
\* what they start and not for their validation.
PlainCommand == <<"c", "d">>

\* The steps of execute_command with the command commandStr.
ExecuteStep(c, commandStr, blockedCommands) ==
    \/ HandleExecuteCommand(c, commandStr, blockedCommands)
    \/ AddSession(c)
    \/ Spawn(c)

\* The steps of read_output.
ReadStep(c) ==
    \/ \E pid \in PIDs : ReadNewOutput(c, pid)
    \/ ReadReset(c)
    \/ ReadReturn(c)

\* The steps of force_terminate on a session with a process.
TerminateStep(c) ==
    \/ \E pid \in PIDs : TerminateSession(c, pid)
    \/ TerminateSignal(c)

\* The steps of a process that writes nothing and of the goroutine that
\* waits for it.
WaitStep(s) ==
    \/ ProcessExits(s)
    \/ WaitReturns(s)
    \/ DoneSend(s)
    \/ DoneClose(s)
    \/ RemoveSession(s)

\* The manager's map under every operation on it; the processes write nothing.
TermNext ==
    \/ \E c \in Callers :
          \/ ExecuteStep(c, PlainCommand, DefaultBlockedCommands)
          \/ ReadStep(c)
          \/ TerminateStep(c)
          \/ TerminateDelete(c)
          \/ ListActiveSessions(c)
          \/ \E pid \in PIDs : GetSession(c, pid) \/ AddUnstarted(c, pid)
    \/ \E s \in SessionIds : WaitStep(s)

TermSpec == TermInit /\ [][TermNext]_vars

\* ReadNewOutput holds tm.mu from its first step to its last, so the reads
\* of a session's output come one after another: one tool call at a time
\* makes them.
OutputCallers == {1}

\* The output of the processes: commands are started, write, are read,
\* terminated and end.
OutputNext ==
    \/ \E c \in OutputCallers :
          \/ ExecuteStep(c, PlainCommand, DefaultBlockedCommands)
          \/ ReadStep(c)
          \/ TerminateStep(c)
    \/ \E s \in SessionIds : ProcessWrites(s) \/ WaitStep(s)

OutputSpec == TermInit /\ [][OutputNext]_vars

\* The validation of commands: every command under every configuration.
ExecuteNext ==
    \/ \E c \in Callers, commandStr \in Commands, blockedCommands \in BlockedLists :
          ExecuteStep(c, commandStr, blockedCommands)
    \/ \E s \in SessionIds : WaitStep(s)

ExecuteSpec == TermInit /\ [][ExecuteNext]_vars

\* The Go scheduler runs the goroutine of every tool call and every wait
\* goroutine; sync.Mutex hands tm.mu to a goroutine that keeps waiting for it
\* (starvation mode).  Nothing is assumed of when a process ends or of which
\* tool calls are made.
TermFairness ==
    /\ \A c \in Callers :
          /\ WF_vars(ReadReset(c) \/ ReadReturn(c))
          /\ WF_vars(TerminateSignal(c))
          /\ SF_vars(AddSession(c))
          /\ WF_vars(Spawn(c))
    /\ \A s \in SessionIds :
          /\ WF_vars(WaitReturns(s) \/ DoneSend(s) \/ DoneClose(s))
          /\ SF_vars(RemoveSession(s))

\* The life of the sessions: commands are started, read, terminated and end.
LifeNext ==
    \/ \E c \in Callers :
          \/ ExecuteStep(c, PlainCommand, DefaultBlockedCommands)
          \/ ReadStep(c)
          \/ TerminateStep(c)
    \/ \E s \in SessionIds : WaitStep(s)

FairLifeSpec == TermInit /\ [][LifeNext]_vars /\ TermFairness

\* ------------------------------------------------ the configuration at work

\* The configuration file when the server starts: none, one that cannot be
\* read, one that is not JSON, the JSON null, the default file, and the
\* default file with a member x: 9007199254740993 added by hand.
InitialFiles ==
    {NoFile, Unreadable, Invalid, Null, DefaultFile,
     Object(With(DefaultFile.object, "x", Number(1, 1)))}

\* The values set_config_value is called with: the empty list and a string.
Values == {List(<<>>), Str(<<"s">>)}

\* The command execute_command is called with: dd.
ListedCommand == <<"d", "d">>

ConfigInit ==
    /\ tree = MissingRoot
    /\ config = Config(<<"a">>, 1, DefaultMaxResults, FALSE, <<>>, 0, FALSE, 0)
    /\ FindCalled
    /\ FirstRun
    /\ TermIdle
    /\ configFile \in InitialFiles
    /\ loadConfigOnce = "new"
    /\ currentConfig = NilConfig
    /\ loadConfigErr = NoError
    /\ setter = [c \in Callers |-> IdleSetter]

\* The steps of set_config_value.
SetStep(c) ==
    \/ \E key \in Keys, value \in Values : SetRead(c, key, value)
    \/ SetWrite(c)

\* set_config_value calls, two at a time.
SetNext == \E c \in Callers : SetStep(c)

SetSpec == ConfigInit /\ [][SetNext]_vars

\* The validation of commands does not depend on how many calls change the
\* file at a time: one tool call at a time makes them.
SetCallers == {1}

\* execute_command calls, two at a time, while the file is changed.
ConfigNext ==
    \/ \E c \in SetCallers : SetStep(c)
    \/ \E c \in Callers :
          ExecuteCommand(c, ListedCommand) \/ AddSession(c) \/ Spawn(c)
    \/ LoadConfig
    \/ LoadWriteDefault

ConfigSpec == ConfigInit /\ [][ConfigNext]_vars

\* ------------------------------------------------- what a search should find

\* Find has returned (to HandleSearchCode, which may have returned too).
Returned == pc \in {"format", "done"}

\* Walk does not descend into directory j: it is hidden and hidden entries
\* are not included, or it could not be read.
NotEntered(j) ==
    /\ tree[j].isDir
    /\ \/ tree[j].walkErr
       \/ (~config.IncludeHidden /\ IsHidden(tree[j]))

\* Entry i is a file the walker hands to the workers.
Scannable(i) ==
    /\ ~tree[i].isDir
    /\ ~tree[i].walkErr
    /\ ~shouldSkipFile(config, tree[i])
    /\ \A j \in 1..Len(tree) :
          Under(tree[i].path, tree[j].path) => ~NotEntered(j)

ScannableFiles == {i \in 1..Len(tree) : Scannable(i)}

\* Every scannable file can be opened and read to its end.
AllReadable == \A i \in ScannableFiles : ~tree[i].openErr /\ ~tree[i].scanErr

\* The engine's matcher accepts the line.
LineMatches(line) == MatchColumn(NewSearchEngine(config), config, line) > 0

\* The (file, line number) pairs of the matching lines of the scannable files.
MatchingLines ==
    UNION {{<<tree[i].path, n>> :
               n \in {n \in 1..Len(tree[i].lines) : LineMatches(tree[i].lines[n])}} :
           i \in ScannableFiles}

TotalMatches == Cardinality(MatchingLines)

Min(a, b) == IF a < b THEN a ELSE b

\* ------------------------------------------------------------------ claims

Sorted(ms) ==
    \A i \in 1..(Len(ms) - 1) :
        \/ StrLess(ms[i].File, ms[i + 1].File)
        \/ (ms[i].File = ms[i + 1].File /\ ms[i].Line <= ms[i + 1].Line)

\* C1: the Matches of every result Search returns are sorted: each adjacent
\* pair (a, b) has a.File < b.File, or a.File = b.File and a.Line <= b.Line,
\* whatever the worker count, the interleaving, the ceiling or the timeout.
C1_ResultSorted == (Returned /\ err = NoError) => Sorted(results.Matches)

\* A result of several matches that had arrived in another order.
C1_Witness ==
    /\ pc = "done"
    /\ Len(results.Matches) >= 2
    /\ collected # results.Matches

\* The result holds min(N, T) matches, T the number of matching lines of the
\* scannable files, never more than N, and Stats.MatchesFound is that number.
CeilingExact ==
    /\ Len(results.Matches) = Min(config.MaxResults, TotalMatches)
    /\ Len(results.Matches) <= config.MaxResults
    /\ results.Stats.MatchesFound = Len(results.Matches)

\* C2 as stated: with MaxResults = N > 0, no cancellation and every file
\* readable, the result holds min(N, T) matches, for every worker count.
C2_Original ==
    (Returned /\ err = NoError /\ config.MaxResults > 0 /\ ~timedOut /\ AllReadable)
        => CeilingExact

\* C2, amended: with MaxResults = N > 0, no cancellation, every file readable
\* and at least one worker, the result holds min(N, T) matches, never more
\* than N, and Stats.MatchesFound is that number.
C2_CeilingExact ==
    (Returned /\ err = NoError /\ config.MaxResults > 0 /\ ~timedOut /\ AllReadable
        /\ config.MaxWorkers >= 1)
        => CeilingExact

\* Two workers, more matching lines than the ceiling admits.
C2_Witness ==
    /\ pc = "done"
    /\ config.MaxWorkers = 2
    /\ config.MaxResults > 0
    /\ ~timedOut
    /\ TotalMatches > config.MaxResults
    /\ Len(results.Matches) = config.MaxResults

\* Neither the first search nor its repetition was cut short by its timeout.
BothRanToTheEnd ==
    run = 2 /\ Returned /\ err = NoError /\ ~timedOut /\ ~firstTimedOut

DefaultConfig ==
    /\ config.MaxResults = DefaultMaxResults
    /\ config.MaxWorkers >= 1
    /\ ~config.IgnoreCase
    /\ config.FilePattern = <<>>
    /\ config.ContextLines = 0
    /\ ~config.IncludeHidden
    /\ config.Timeout = 0

\* The string s is one the pattern denotes: "." stands for any character,
\* every other character for itself.
Denotes(pattern, s) ==
    /\ Len(s) = Len(pattern)
    /\ \A j \in 1..Len(pattern) : pattern[j] = "." \/ pattern[j] = s[j]

\* The line contains the pattern: some substring of it is denoted.
ContainsPattern(pattern, line) ==
    \E i \in 0..Len(line) : \E n \in 0..(Len(line) - i) :
        Denotes(pattern, SubSeq(line, i + 1, i + n))

\* The path of entry i below the root has no element starting with a dot.
NotHiddenUnderRoot(i) ==
    LET rel == SubSeq(tree[i].path, Len(tree[1].path) + 2, Len(tree[i].path))
    IN  /\ rel # <<>>
        /\ rel[1] # "."
        /\ \A k \in 1..(Len(rel) - 1) : rel[k] = "/" => rel[k + 1] # "."

\* The non-binary, non-hidden files under the root that can be read.
PlainFiles ==
    {i \in 2..Len(tree) :
        /\ ~tree[i].isDir
        /\ NotHiddenUnderRoot(i)
        /\ ~isBinaryFile(tree[i])
        /\ ~tree[i].walkErr /\ ~tree[i].openErr /\ ~tree[i].scanErr
        /\ \A j \in 2..Len(tree) :
              Under(tree[i].path, tree[j].path) => ~tree[j].walkErr}

\* The lines of those files that contain the pattern.
LinesContaining ==
    UNION {{<<i, n>> : n \in {n \in 1..Len(tree[i].lines) :
                                 ContainsPattern(config.Pattern, tree[i].lines[n])}} :
           i \in PlainFiles}

\* C4: for a search with the default configuration and no cancellation, the
\* reported match count, len(Matches) = Stats.MatchesFound, is the number of
\* lines of the non-binary, non-hidden (readable) files under the root that
\* contain the pattern.
C4_Original ==
    (Returned /\ err = NoError /\ DefaultConfig /\ ~timedOut)
        => /\ Len(results.Matches) = Cardinality(LinesContaining)
           /\ results.Stats.MatchesFound = Len(results.Matches)

\* C4 for a pattern of at least one character and a root whose own name does
\* not start with a dot: there the count is as claimed.
C4_NamedRootAndPattern ==
    (Returned /\ err = NoError /\ DefaultConfig /\ ~timedOut
        /\ config.Pattern # <<>> /\ ~IsHidden(tree[1]))
        => /\ Len(results.Matches) = Cardinality(LinesContaining)
           /\ results.Stats.MatchesFound = Len(results.Matches)

\* The pattern is not a regular expression: it opens a character class that
\* nothing closes.
BadPattern == \E i \in 1..Len(config.Pattern) : config.Pattern[i] = "["

\* C5: Find and Search return a non-nil error exactly when the pattern is a
\* non-literal pattern that does not compile; after every other fault (an
\* unreadable file, a walk error, a missing root, a malformed glob filter, a
\* timeout) they return non-nil SearchResults and a nil error.
C5_ErrorIffBadPattern ==
    Returned =>
        /\ (err # NoError) <=> BadPattern
        /\ err # NoError => err = InvalidRegex
        /\ err = NoError => ~results.isNil

\* A search of the mixed tree (unreadable file, walk error, file that
\* vanishes) under a malformed glob filter that timed out and returned.
C5_Witness ==
    /\ pc = "done"
    /\ tree = MixedTree
    /\ config.FilePattern = <<"[">>
    /\ timedOut
    /\ err = NoError
    /\ ~results.isNil

\* C6: when the pattern does not compile, Search returns the invalid-pattern
\* error before any filesystem work: no channel is made, no walker, worker or
\* closer is started, and no directory entry or file is opened.
C6_NoWorkOnBadPattern ==
    BadPattern =>
        /\ ~started
        /\ ~fsTouched
        /\ walker.pc = "none" /\ worker = <<>> /\ closerPc = "none"
        /\ filePaths = <<>> /\ matchChan = <<>>
        /\ ~filePathsClosed /\ ~matchChanClosed
        /\ filesScanned = 0 /\ bytesScanned = 0
        /\ Returned => (err = InvalidRegex /\ results.isNil)

\* A search of the mixed tree for "[a" that returned its error.
C6_Witness ==
    /\ pc = "done"
    /\ tree = MixedTree
    /\ BadPattern
    /\ err = InvalidRegex
    /\ output.err = "search failed"

\* The match is one the uncancelled, unlimited search returns: a matching
\* line of a scannable file, with that line's text and the match's column.
Genuine(m) ==
    /\ <<m.File, m.Line>> \in MatchingLines
    /\ m.Content = EntryAt(m.File).lines[m.Line]
    /\ m.Column = MatchColumn(NewSearchEngine(config), config, m.Content)

\* The scannable files that have no line.
EmptyFiles == {i \in ScannableFiles : tree[i].lines = <<>>}

\* What a cancelled search returns: no error, genuine matches, sorted, no more
\* than the ceiling; after a cancellation that came before any file was
\* opened, no match and no byte.
CoherentResult ==
    /\ err = NoError
    /\ ~results.isNil
    /\ \A k \in 1..Len(results.Matches) : Genuine(results.Matches[k])
    /\ Sorted(results.Matches)
    /\ config.MaxResults > 0 => Len(results.Matches) <= config.MaxResults
    /\ results.Stats.MatchesFound = Len(results.Matches)
    /\ cancelEarly => (results.Matches = <<>> /\ results.Stats.BytesScanned = 0)

\* C7: a search whose context is cancelled at any point returns a coherent
\* result and a nil error: genuine matches, sorted, at most MaxResults; and if
\* the cancellation fired before any file was scanned the result is empty
\* with FilesScanned = 0 and BytesScanned = 0.
C7_Original ==
    (Returned /\ started /\ timedOut)
        => /\ CoherentResult
           /\ cancelEarly => results.Stats.FilesScanned = 0

\* C7 without its FilesScanned = 0: after an early cancellation the files
\* counted are files without a line, at most one for each worker.
C7_CoherentOnCancel ==
    (Returned /\ started /\ timedOut)
        => /\ CoherentResult
           /\ cancelEarly =>
                 /\ results.Stats.FilesScanned <= Cardinality(EmptyFiles)
                 /\ results.Stats.FilesScanned <= config.MaxWorkers

\* C8: a search through HandleSearchCode whose timeout expires before the
\* search yields any match (here: before any file is opened, in a tree that
\* has matching lines) returns the text "Search timed out.", not the empty
\* text of a search without matches.
C8_Original ==
    (pc = "done" /\ started /\ timedOut /\ cancelEarly /\ TotalMatches > 0
        /\ results.Matches = <<>>)
        => output.text = TimedOutText

\* C9: every call of Search with MaxWorkers >= 1 eventually returns, for
\* every tree and ceiling, with or without a timeout.
C9_SearchReturns == (config.MaxWorkers >= 1) => <>(pc = "done")

\* A search without timeout that returned at its ceiling and left its walker
\* blocked on a full filePaths that no worker reads any more.
C9_Witness ==
    /\ pc = "done"
    /\ config.MaxWorkers >= 1
    /\ config.Timeout = 0
    /\ walker.pc = "send"
    /\ \A w \in DOMAIN worker : worker[w].pc = "done"

\* The context a match on line m.Line should carry: the min(K, L - 1) lines
\* before it, in file order.
ExpectedContext(m) ==
    LET n == Min(config.ContextLines, m.Line - 1)
    IN  SubSeq(EntryAt(m.File).lines, m.Line - n, m.Line - 1)

DenotesFolded(pattern, s) ==
    /\ Len(s) = Len(pattern)
    /\ \A j \in 1..Len(pattern) :
          \/ pattern[j] = "."
          \/ pattern[j] = s[j]
          \/ config.IgnoreCase /\ LowerChar(pattern[j]) = LowerChar(s[j])

\* The 0-indexed offsets of the line at which the pattern occurs.
Occurrences(line) ==
    {i \in 0..Len(line) :
        /\ i + Len(config.Pattern) <= Len(line)
        /\ DenotesFolded(config.Pattern, SubSeq(line, i + 1, i + Len(config.Pattern)))}

\* What searchFile should return for the lines of entry e: one match for each
\* line the pattern occurs in, in line order, with the 1-indexed line number,
\* 1 + the offset of the first occurrence and the whole line.
OneMatchPerLine(e, ms) ==
    LET hit == {n \in 1..Len(e.lines) : Occurrences(e.lines[n]) # {}}
    IN  /\ Len(ms) = Cardinality(hit)
        /\ \A k \in 1..(Len(ms) - 1) : ms[k].Line < ms[k + 1].Line
        /\ \A k \in 1..Len(ms) :
              /\ ms[k].Line \in hit
              /\ ms[k].File = e.path
              /\ ms[k].Content = e.lines[ms[k].Line]
              /\ \E i \in Occurrences(ms[k].Content) :
                    /\ ms[k].Column = i + 1
                    /\ \A j \in Occurrences(ms[k].Content) : i <= j

\* Worker w has searchFile's return value in hand for a file it read to the
\* end (the ceiling did not break the scan).
ScannedToEnd(w) ==
    /\ worker[w].pc = "count"
    /\ worker[w].lineNum = Len(tree[worker[w].file].lines) + 1

\* C11: for every scanned file searchFile returns exactly one match for each
\* line that matches, none for another line, with Line the 1-indexed line
\* number, Column 1 + the start of the first occurrence and Content the whole
\* line; a pattern without metacharacter is matched as a literal substring
\* (case-folded under IgnoreCase), any other as a regular expression.
C11_Original ==
    \A w \in DOMAIN worker :
        ScannedToEnd(w) => OneMatchPerLine(tree[worker[w].file], worker[w].matches)

\* C11 for a pattern of at least one character: there searchFile returns what
\* is claimed.
C11_NonEmptyPattern ==
    \A w \in DOMAIN worker :
        (ScannedToEnd(w) /\ config.Pattern # <<>>)
            => OneMatchPerLine(tree[worker[w].file], worker[w].matches)

\* Walk calls the callback for entry i without an error: no directory above
\* it was pruned or unreadable.
Visited(i) ==
    /\ ~tree[i].walkErr
    /\ \A j \in 1..Len(tree) : Under(tree[i].path, tree[j].path) => ~NotEntered(j)

\* The classification a path must pass to be placed on the work queue.
Eligible(i) ==
    LET e == tree[i]
        name == BaseName(e.path)
    IN  /\ ~e.isDir
        /\ config.IncludeHidden \/ name = <<>> \/ name[1] # "."
        /\ ToLower(Ext(e.path)) \notin binaryExts
        /\ e.readable
        /\ e.nulAt = 0 \/ e.nulAt > SniffLen
        /\ config.FilePattern = <<>> \/ GlobMatch(config.FilePattern, name)

\* The walk came to its end (it was not cut short by a cancellation).
WalkComplete == walker.pc = "done" /\ walker.idx > Len(tree)

RECURSIVE SerializedLines(_)
SerializedLines(ms) ==
    IF ms = <<>> THEN <<>>
    ELSE LET m == Head(ms)
         IN  << m.File \o <<":">> \o Itoa(m.Line) \o <<":">> \o m.Content >>
                \o [k \in 1..Len(m.Context) |-> m.File \o <<"-">> \o m.Context[k]]
                \o SerializedLines(Tail(ms))

\* The lines joined by newlines, without a newline after the last.
RECURSIVE JoinLines(_)
JoinLines(ls) ==
    IF ls = <<>> THEN <<>>
    ELSE IF Len(ls) = 1 THEN ls[1]
    ELSE ls[1] \o <<"\n">> \o JoinLines(Tail(ls))

\* C13: HandleSearchCode serializes a result as, for each match in result
\* order, one line "File:Line:Content" followed by one line
\* "File-ContextLine" for each context entry, joined by newlines without a
\* trailing newline; a result without matches gives the empty string and a
\* nil error.
C13_Serialization ==
    (pc = "done" /\ err = NoError) =>
        /\ output.err = NoError
        /\ output.text = JoinLines(SerializedLines(results.Matches))
        /\ results.Matches = <<>> => output.text = <<>>

\* A serialized result of two matches that carry context lines.
C13_Witness ==
    /\ pc = "done"
    /\ Len(results.Matches) >= 2
    /\ \A k \in 1..Len(results.Matches) : results.Matches[k].Context # <<>>
    /\ Len(SerializedLines(results.Matches)) >= 5
    /\ output.text # <<>>

\* C14: once the shared result count has reached MaxResults (> 0), no worker
\* takes a new path from the work queue and starts scanning it, and no scan
\* or emit loop in progress pushes a further match onto the match stream.
C14_Original == ~openedAtCeiling /\ ~sentAtCeiling

\* C14 for a single worker, and what holds for any number of workers: each
\* worker pushes at most one match after the count has reached the ceiling.
C14_SingleWorkerStops ==
    /\ config.MaxWorkers <= 1 => (~openedAtCeiling /\ ~sentAtCeiling)
    /\ config.MaxResults > 0 => resultCount <= config.MaxResults + config.MaxWorkers - 1

\* The walker, every worker and the closer of the search have terminated.
GoroutinesDone ==
    /\ walker.pc = "done"
    /\ \A w \in DOMAIN worker : worker[w].pc = "done"
    /\ closerPc = "done"

\* C15: when Search returns, the walker, every worker and the stream closer
\* of that search have terminated, for every MaxResults value and with or
\* without a timeout.
C15_Original == (Returned /\ started) => GoroutinesDone

\* C15 for a search by at least one worker without ceiling and without
\* timeout: there Search returns only after the closed match stream, when
\* every goroutine has ended.
C15_NoCeilingNoTimeout ==
    (Returned /\ started /\ config.MaxResults = 0 /\ config.Timeout = 0
        /\ config.MaxWorkers >= 1)
        => GoroutinesDone

\* A search without timeout has returned and its walker can never go on: it
\* waits to send on a full filePaths, every worker has ended and the context
\* is never cancelled.
C15_Leak ==
    /\ pc = "done"
    /\ config.Timeout = 0
    /\ walker.pc = "send"
    /\ Len(filePaths) = FilePathsCap
    /\ \A w \in DOMAIN worker : worker[w].pc = "done"

\* Worker w holds a path it has received and not yet finished with.
Holding(w) == worker[w].pc \notin {"recv", "done"}

\* The number of times entry i stands in the filePaths buffer.
Queued(i) == Cardinality({k \in 1..Len(filePaths) : filePaths[k] = i})

C17_ClosedAfterWorkers ==
    /\ matchChanClosed => \A w \in DOMAIN worker : worker[w].pc = "done"
    /\ sawClose => (matchChanClosed /\ \A w \in DOMAIN worker : worker[w].pc = "done")
    /\ matchChanClosed => closerPc = "done"

\* The aggregator saw the closed stream after two workers had sent matches.
C17_Witness ==
    /\ sawClose
    /\ Len(worker) = 2
    /\ Len(collected) >= 3
    /\ \E k \in 1..(Len(collected) - 1) : collected[k].File # collected[k + 1].File

\* C18: the work queue is closed at most once in a search, only by the
\* walker (as its last step), and no path is sent on it after the close.
C18_ClosedOnce ==
    /\ closes <= 1
    /\ filePathsClosed <=> closes = 1
    /\ filePathsClosed => walker.pc = "done"
    /\ walker.pc = "send" => ~filePathsClosed
    /\ \A i \in 1..Len(tree) : i >= walker.idx => enqueued[i] = 0

\* The walker closed the queue on a cancellation, before the walk's end, with
\* paths it had sent before.
C18_Witness ==
    /\ closes = 1
    /\ timedOut
    /\ walker.pc = "done"
    /\ walker.idx <= Len(tree)
    /\ \E i \in 1..Len(tree) : enqueued[i] = 1

\* C19: in every search that passes pattern validation the walker eventually
\* finishes and closes the work queue, for every MaxResults value and worker
\* count, with or without a timeout.
C19_Original == started ~> filePathsClosed

\* C19 where something keeps the queue moving or releases the walker: a
\* configured timeout (Find's deferred cancel at the latest), or at least one
\* worker and a ceiling that is never reached.
C19_ClosesUnlessCeiling ==
    (\/ config.Timeout > 0
     \/ (config.MaxWorkers >= 1 /\ config.MaxResults \in {0, DefaultMaxResults}))
        => (started ~> filePathsClosed)

\* What a goroutine that sees the cancelled context does with its next step:
\* the walker's callback does not go on to a send, a worker about to call
\* searchFile returns instead, and a scan reads no further line.
StopsOnCancel ==
    ctxDone =>
        /\ (walker.pc = "visit" /\ walker' # walker) => walker'.pc # "send"
        /\ \A w \in DOMAIN worker :
              /\ (worker[w].pc = "check" /\ worker'[w] # worker[w])
                    => worker'[w].pc = "done"
              /\ (worker[w].pc = "scan" /\ worker'[w] # worker[w])
                    => /\ worker'[w].lineNum = worker[w].lineNum
                       /\ worker'[w].matches = worker[w].matches
                       /\ worker'[w].pc \in {"recv", "count"}

\* C20: after the context is cancelled every goroutine of the search stops:
\* the walker stops enqueuing and closes the work queue, each worker waiting
\* on a queue read or a stream write is released and returns, a scan in
\* progress stops before its next line, and Search returns.
C20_CancelStops ==
    /\ [][StopsOnCancel]_vars
    /\ ctxDone ~> (GoroutinesDone /\ filePathsClosed /\ matchChanClosed /\ pc = "done")

\* A search that its timeout cancelled has returned with every goroutine
\* ended, the walk cut short and a path left in the queue.
C20_Witness ==
    /\ timedOut
    /\ pc = "done"
    /\ GoroutinesDone
    /\ walker.idx <= Len(tree)
    /\ filePaths # <<>>
    /\ \E i \in 1..Len(tree) : opened[i] = 1

\* No worker is running when Search reads the counters, and the Stats it
\* returned hold the counters' values, which no worker changes afterwards.
StatsFinal ==
    /\ pc = "finish" => \A w \in DOMAIN worker : worker[w].pc = "done"
    /\ (Returned /\ started) =>
          /\ results.Stats.FilesScanned = filesScanned
          /\ results.Stats.BytesScanned = bytesScanned

\* C21: the statistics are finalized only once all workers have completed:
\* when Search copies the files-scanned and bytes-scanned counters into Stats
\* no worker is still running, no counter is incremented after it was read,
\* and the returned Stats equal the counters' final values.
C21_Original == StatsFinal

\* C21 for the searches whose collecting loop ended on the closed match
\* stream (it did not break at the ceiling): there the statistics are final.
C21_FinalAfterClose == (sawClose \/ pc \notin {"finish", "FindReturn", "format", "done"}) => StatsFinal

\* Worker w's step applies a ceiling test: in the emit loop after its
\* increment, or in searchFile on a line that matches.
TestsCeiling(w) ==
    \/ worker[w].pc = "ceiling"
    \/ /\ worker[w].pc = "scan"
       /\ ~ctxDone
       /\ worker[w].lineNum <= Len(tree[worker[w].file].lines)
       /\ MatchColumn(engine, config,
                      tree[worker[w].file].lines[worker[w].lineNum]) > 0

\* Worker w's step left its loop as the ceiling test does when it succeeds.
LeftAtCeiling(w) ==
    IF worker[w].pc = "ceiling" THEN worker'[w].pc = "done"
    ELSE worker'[w].pc = "count"

\* Every ceiling test of a worker is decided on the value resultCount has at
\* that moment, as an atomic load would give it.
CeilingReadsCurrent ==
    \A w \in DOMAIN worker :
        (TestsCeiling(w) /\ worker'[w] # worker[w])
            => (LeftAtCeiling(w) <=> AtCeiling(resultCount))

\* Search's reads of filesScanned and bytesScanned give their current values.
StatsReadsCurrent ==
    (pc = "finish" /\ pc' = "FindReturn")
        => /\ results'.Stats.FilesScanned = filesScanned
           /\ results'.Stats.BytesScanned = bytesScanned

\* C22: every access to the shared counters is atomic: each ceiling test in
\* the worker and in searchFile, and each read of a counter by Search, sees
\* the counter's current value; no unsynchronized read runs concurrently
\* with a write.
C22_Original == [][CeilingReadsCurrent /\ StatsReadsCurrent]_vars

\* C22 for a single worker and a collecting loop that ends on the closed
\* match stream: there every read follows every write it could race with.
C22_ReadsCurrentWhenAlone ==
    [][(config.MaxWorkers <= 1 => CeilingReadsCurrent)
         /\ (sawClose => StatsReadsCurrent)]_vars

\* The last element of entry i's path starts with a dot.
DotNamed(i) ==
    LET p == tree[i].path
        slashes == {k \in 1..Len(p) : p[k] = "/"}
        first == IF slashes = {} THEN 1 ELSE Max(slashes) + 1
    IN  first <= Len(p) /\ p[first] = "."

\* Entry i lies somewhere under a directory whose name starts with a dot.
UnderDotDir(i) ==
    \E j \in 1..Len(tree) :
        tree[j].isDir /\ DotNamed(j) /\ Under(tree[i].path, tree[j].path)

\* Walk reports no error for entry i or for a directory above it.
NoWalkError(i) ==
    /\ ~tree[i].walkErr
    /\ \A j \in 1..Len(tree) : Under(tree[i].path, tree[j].path) => ~tree[j].walkErr

\* C23: when IncludeHidden is false the walker never descends into a
\* directory whose name starts with ".": no file under such a directory is
\* enqueued or scanned, and no dot-named file is enqueued; when IncludeHidden
\* is true, dot-named files and directories are walked and scanned like any
\* other entry.
C23_HiddenPruned ==
    /\ ~config.IncludeHidden =>
          \A i \in 1..Len(tree) :
              (DotNamed(i) \/ UnderDotDir(i))
                  => (enqueued[i] = 0 /\ received[i] = 0 /\ opened[i] = 0)
    /\ (config.IncludeHidden /\ WalkComplete) =>
          \A i \in 1..Len(tree) :
              (DotNamed(i) \/ UnderDotDir(i))
                  => (enqueued[i] = 1 <=> (NoWalkError(i) /\ Eligible(i)))

\* A complete walk of the mixed tree without hidden entries: r/a was
\* enqueued and scanned, r/.b and r/.d/a were not.
C23_Witness ==
    /\ pc = "done"
    /\ WalkComplete
    /\ tree = MixedTree
    /\ ~config.IncludeHidden
    /\ \E i \in 1..Len(tree) : ~DotNamed(i) /\ ~UnderDotDir(i) /\ opened[i] = 1
    /\ \E i \in 1..Len(tree) : ~tree[i].isDir /\ DotNamed(i) /\ enqueued[i] = 0
    /\ \E i \in 1..Len(tree) : ~DotNamed(i) /\ UnderDotDir(i) /\ enqueued[i] = 0

\* The files the walk hands to the workers that open and read without error.
GoodFiles ==
    {i \in 1..Len(tree) :
        Visited(i) /\ Eligible(i) /\ ~tree[i].openErr /\ ~tree[i].scanErr}

\* The files whose open or read fails, at the sniff, at searchFile's open or
\* in its scan.
FailingFiles ==
    {i \in 1..Len(tree) :
        ~tree[i].isDir /\ (~tree[i].readable \/ tree[i].openErr \/ tree[i].scanErr)}

\* The bytes searchFile counts for the files F read to their end.
RECURSIVE TotalBytes(_)
TotalBytes(F) ==
    IF F = {} THEN 0
    ELSE LET i == CHOOSE i \in F : TRUE
         IN  BytesThrough(tree[i].lines, Len(tree[i].lines)) + TotalBytes(F \ {i})

\* The (file, line) pairs of the matches ms.
Places(ms) == {<<ms[k].File, ms[k].Line>> : k \in 1..Len(ms)}

\* C24: a file whose open or read fails is simply excluded: it contributes no
\* match and is not counted in FilesScanned or BytesScanned, the worker goes
\* on with the next path, and the matches returned are those of the same
\* search on the tree without that file (ceiling not reached, no
\* cancellation); a walk error on an entry skips that entry only.
C24_FailuresExcluded ==
    (Returned /\ err = NoError /\ sawClose /\ ~timedOut /\ config.MaxWorkers >= 1) =>
        /\ \A k \in 1..Len(results.Matches) :
              \A i \in FailingFiles : results.Matches[k].File # tree[i].path
        /\ Places(results.Matches) =
              UNION {{<<tree[i].path, n>> :
                         n \in {n \in 1..Len(tree[i].lines) :
                                   LineMatches(tree[i].lines[n])}} : i \in GoodFiles}
        /\ Len(results.Matches) = Cardinality(Places(results.Matches))
        /\ results.Stats.FilesScanned = Cardinality(GoodFiles)
        /\ results.Stats.BytesScanned = TotalBytes(GoodFiles)
        /\ \A i \in GoodFiles : opened[i] = 1

\* A search of the mixed tree that ran to its end: the file whose scan fails
\* and the file whose open fails were both opened, and files after them and
\* after the entry with the walk error were scanned.
C24_Witness ==
    /\ pc = "done"
    /\ sawClose /\ ~timedOut
    /\ tree = MixedTree
    /\ \E i \in 1..Len(tree) : tree[i].scanErr /\ opened[i] = 1
    /\ \E i \in 1..Len(tree) : tree[i].openErr /\ opened[i] = 1
    /\ \E i \in 1..Len(tree) : \E j \in GoodFiles : tree[i].walkErr /\ i < j
    /\ Len(results.Matches) >= 2
    /\ results.Stats.FilesScanned = 2

\* Worker w is inside searchFile with a line still to read, holds matches of
\* the file, and the context is done: its next step observes the cancellation.
ObservesCancelMidFile(w) ==
    /\ worker[w].pc = "scan"
    /\ worker[w].lineNum <= Len(tree[worker[w].file].lines)
    /\ worker[w].matches # <<>>
    /\ ctxDone
    /\ worker'[w] # worker[w]

\* C25: when cancellation is observed in the middle of scanning a file, the
\* matches accumulated so far and the partial byte count are a graceful
\* partial result: the worker goes on to count the file and its bytes and to
\* offer the matches to the match stream.
C25_Original ==
    [][\A w \in DOMAIN worker :
          ObservesCancelMidFile(w) =>
              /\ worker'[w].pc = "count"
              /\ worker'[w].matches = worker[w].matches
              /\ worker'[w].bytesRead = worker[w].bytesRead]_vars

\* What the worker does instead: searchFile's error is the context's, the
\* worker takes it for a failure of the file and goes back to the range loop;
\* nothing is counted and nothing is offered.
C25_PartialDropped ==
    [][\A w \in DOMAIN worker :
          ObservesCancelMidFile(w) =>
              /\ worker'[w].pc = "recv"
              /\ filesScanned' = filesScanned
              /\ bytesScanned' = bytesScanned
              /\ matchChan' = matchChan]_vars

\* C26: every read or write of tm.sessions, in AddSession, GetSession,
\* RemoveSession, ReadNewOutput, TerminateSession and ListActiveSessions and
\* on every path of each, is made while tm.mu is held.
C26_Original == ~unguarded

\* The one access without the mutex is the delete of TerminateSession on a
\* session whose process is nil, after it has unlocked.
C26_GuardedButNilProcess ==
    [][(unguarded' # unguarded) =>
          \E c \in Callers : caller[c].pc = "term_delete" /\ caller'[c].pc = "idle"]_vars

\* The sessions StartCommand makes never take that path.
C26_StartedHaveProcess ==
    \A c \in Callers : caller[c].pc = "term_delete" => caller[c].sid = Unstarted

\* Byte x has been written by its process.
Written(x) == x[2] <= session[x[1]].written

\* Byte x is unread in a buffer of its session.
InBuffer(x) ==
    \E k \in 1..session[x[1]].Stdout.len + session[x[1]].Stderr.len :
        (Bytes(session[x[1]].Stdout) \o Bytes(session[x[1]].Stderr))[k] = x

\* Byte x is in the slices a ReadNewOutput under way has taken.
InFlight(x) ==
    \E c \in Callers :
        /\ caller[c].pc \in {"read_reset", "read_return"}
        /\ \E k \in 1..Len(caller[c].stdoutBytes \o caller[c].stderrBytes) :
              (caller[c].stdoutBytes \o caller[c].stderrBytes)[k] = x

\* Byte x has been returned once, or is still to be returned.
ExactlyOnce(x) ==
    /\ returned[x] <= 1
    /\ returned[x] = 1 \/ InBuffer(x) \/ InFlight(x)

\* C27: across any sequence of ReadNewOutput calls interleaved with the
\* process writing, each byte written to stdout or to stderr is returned by
\* exactly one call: none is returned twice and none is dropped.
C27_Original == \A x \in AllBytes : Written(x) => ExactlyOnce(x)

\* A byte is lost or doubled only by a step of a ReadNewOutput that is under
\* way on the byte's session: a byte written between Bytes() and Reset() is
\* dropped, one written after Reset() into the array of the slices is returned
\* in the place of an earlier one and again by the next call.
C27_LostOnlyDuringRead ==
    [][\A x \in AllBytes :
          (Written(x) /\ ExactlyOnce(x) /\ ~ExactlyOnce(x)') =>
              \E c \in Callers :
                  /\ caller[c].pc \in {"read_reset", "read_return"}
                  /\ caller[c].sid = x[1]
                  /\ caller'[c].pc # caller[c].pc]_vars

\* C28: ReadNewOutput and TerminateSession with a pid that is not in the map
\* return the "not found or already completed" error, send no signal and
\* leave the map and every session's buffers as they are.
C28_UnknownPid ==
    [][\A c \in Callers, pid \in PIDs :
          (pid \notin DOMAIN sessions
              /\ (ReadNewOutput(c, pid) \/ TerminateSession(c, pid))) =>
                  /\ lastReturn'.ret =
                        [text |-> <<"not found or already completed">>,
                         err |-> "not found"]
                  /\ lastReturn'.op \in {"read", "terminate"}
                  /\ caller'[c].pc = "idle"
                  /\ sessions' = sessions
                  /\ session' = session
                  /\ mu' = Free]_vars

\* A read of the pid of a command that ended and was removed with output
\* still in its buffer has just returned the error.
C28_Witness ==
    /\ lastReturn = Return("read", NotFound)
    /\ \E s \in SessionIds :
          /\ session[s].waiter = "end"
          /\ session[s].pid \notin DOMAIN sessions
          /\ session[s].Stdout.len > 0

\* Session s is a value of the map.
InMap(s) == \E p \in DOMAIN sessions : sessions[p] = s

\* The wait goroutine of a session exists only once the session has been
\* added; it sends one value on Done before it closes it, and both before it
\* removes the session.
WaitOrder ==
    \A s \in SessionIds :
        /\ session[s].waiter # "none" => session[s].added
        /\ session[s].sends = Len(session[s].Done)
        /\ session[s].sends <= 1
        /\ session[s].doneClosed => session[s].sends = 1
        /\ session[s].waiter \in {"remove", "end"} => session[s].doneClosed
        /\ session[s].waiter = "end" => ~InMap(s)
        /\ ~session[s].added => ~InMap(s)

\* A TerminateSession that returns nil leaves the map as it is.
TerminateKeeps ==
    \A c \in Callers :
        (caller[c].pc = "term_signal" /\ lastReturn' = Return("terminate", SignalSent))
            => sessions' = sessions

\* C29: the session is added to the map before its wait goroutine can remove
\* it; once the process has ended the goroutine sends exactly one value on
\* Done, closes Done and removes the session, so every session is removed in
\* the end after its process has ended; a successful TerminateSession does not
\* remove the session.
C29_RemovedAfterExit ==
    /\ []WaitOrder
    /\ [][TerminateKeeps]_vars
    /\ \A s \in SessionIds :
          (session[s].state = "exited") ~> (session[s].waiter = "end" /\ ~InMap(s))

\* The goroutine of a session has sent on Done, closed it and removed the
\* session, while another session is in the map with its process running.
C29_Witness ==
    \E s \in SessionIds :
        /\ session[s].waiter = "end"
        /\ session[s].sends = 1
        /\ session[s].doneClosed
        /\ ~InMap(s)
        /\ \E t \in SessionIds : t # s /\ session[t].state = "running" /\ InMap(t)

\* A command name of the string resolves to a literal that, lowercased, is in
\* the list.
NamesBlocked(commandStr, blockedList) ==
    \E k \in 1..Len(CallNames(commandStr)) :
        /\ CmdName(CallNames(commandStr)[k]) # <<>>
        /\ \E b \in 1..Len(blockedList) :
              blockedList[b] = ToLower(CmdName(CallNames(commandStr)[k]))

\* The string does not parse, or one of its command names is blocked.
MustBlock(commandStr, blockedList) ==
    ParseFails(commandStr) \/ NamesBlocked(commandStr, blockedList)

\* The step returned the "Command execution blocked" message and a nil error.
ReturnsBlocked ==
    /\ lastReturn'.op = "execute"
    /\ lastReturn'.ret.err = NoError
    /\ Len(lastReturn'.ret.text) >= 1
    /\ lastReturn'.ret.text[1] = "Command execution blocked"

\* C30: a command that does not parse, or with a command name that resolves
\* to a literal which lowercased is in the blocked list, starts no process,
\* leaves the map as it is and is answered by the "Command execution blocked"
\* message with a nil error.
C30_Original ==
    [][\A c \in Callers, commandStr \in Commands, blockedList \in BlockedLists :
          (HandleExecuteCommand(c, commandStr, blockedList)
              /\ MustBlock(commandStr, blockedList)) =>
                  /\ session' = session
                  /\ sessions' = sessions
                  /\ caller'[c].pc = "idle"
                  /\ ReturnsBlocked]_vars

\* The same under a blocked list that is not empty, and for the message,
\* when the configuration has loaded: with an empty list no string is
\* parsed and every command is started.
C30_BlockedWhenListed ==
    [][\A c \in Callers, commandStr \in Commands, blockedList \in BlockedLists :
          (HandleExecuteCommand(c, commandStr, blockedList)
              /\ MustBlock(commandStr, blockedList)
              /\ Len(blockedList) > 0) =>
                  /\ session' = session
                  /\ sessions' = sessions
                  /\ caller'[c].pc = "idle"
                  /\ ReturnsBlocked \/ lastReturn' = Return("execute", ConfigError)]_vars

\* The command Dd has just been refused under the list that names dd.
C30_Witness ==
    /\ lastReturn = Return("execute", Blocked(<<"D", "d">>))
    /\ \A c \in Callers : caller[c].pc = "idle"

\* The matches pushed onto matchChan so far: those counted and those sent
\* whose atomic.AddInt64 is still to come.
Pushed == resultCount + Cardinality({w \in DOMAIN worker : worker[w].pc = "add"})

\* The collecting loop has ended by its break at the ceiling.
StoppedAtCeiling == pc \in {"finish", "FindReturn", "format", "done"} /\ started /\ ~sawClose

\* C32: with MaxResults > 0 at most MaxResults + MaxWorkers - 1 matches are
\* ever pushed onto the match stream; so once the aggregator has stopped at
\* the ceiling at most MaxWorkers - 1 matches stay in the stream and, for
\* MaxWorkers <= 1001, a worker that wants to write finds room in the stream.
C32_PushedBounded ==
    config.MaxResults > 0 =>
        /\ Pushed <= config.MaxResults + config.MaxWorkers - 1
        /\ Len(matchChan) + Len(collected) = Pushed
        /\ StoppedAtCeiling =>
              /\ Len(collected) = config.MaxResults
              /\ Len(matchChan) <= config.MaxWorkers - 1
              /\ config.MaxWorkers <= MatchChanCap + 1 =>
                    \A w \in DOMAIN worker :
                        worker[w].pc = "emit" => Len(matchChan) < MatchChanCap

\* Two workers under the ceiling 1 have pushed two matches: the aggregator
\* has stopped with the first and the second stays in the stream.
C32_Witness ==
    /\ config.MaxResults = 1
    /\ config.MaxWorkers = 2
    /\ Pushed = config.MaxResults + config.MaxWorkers - 1
    /\ StoppedAtCeiling
    /\ Len(matchChan) = 1

\* The entries a worker has added to filesScanned, and those the walker has
\* sent on filePaths.
CountedFiles == {i \in 1..Len(tree) : counted[i] > 0}
EnqueuedFiles == {i \in 1..Len(tree) : enqueued[i] > 0}

\* The matches that have left searchFile's caller: in the stream or collected.
Emitted == matchChan \o collected

\* C33: in every returned result the number of distinct files in Matches is
\* at most Stats.FilesScanned and Stats.FilesScanned is at most the number
\* of paths the walker enqueued; each file is counted at most once, before
\* any of its matches is emitted, and never when its scan returned an error.
C33_FilesScannedBounds ==
    /\ \A i \in 1..Len(tree) :
          /\ counted[i] <= 1
          /\ counted[i] <= opened[i]
          /\ opened[i] <= enqueued[i]
          /\ tree[i].openErr => counted[i] = 0
          /\ (tree[i].scanErr /\ config.MaxResults = 0) => counted[i] = 0
    /\ filesScanned = Cardinality(CountedFiles)
    /\ \A k \in 1..Len(Emitted) :
          \E i \in CountedFiles : tree[i].path = Emitted[k].File
    /\ (Returned /\ ~results.isNil) =>
          /\ Cardinality(FilesOf(results.Matches)) <= results.Stats.FilesScanned
          /\ results.Stats.FilesScanned <= Cardinality(EnqueuedFiles)

\* A search has returned matches of two files at the ceiling while a third
\* file was enqueued and never counted.
C33_Witness ==
    /\ Returned
    /\ ~results.isNil
    /\ Cardinality(FilesOf(results.Matches)) = 2
    /\ results.Stats.FilesScanned = 2
    /\ Cardinality(EnqueuedFiles) >= 3
    /\ \E i \in EnqueuedFiles : counted[i] = 0

\* The matches ms stand in strictly increasing order of (File, Line).
StrictlyIncreasing(ms) ==
    \A i \in 1..Len(ms) : \A j \in 1..Len(ms) : i < j => Less(ms[i], ms[j])

\* C34: no two matches of a returned result have the same (File, Line):
\* searchFile produces the matches of a file in strictly increasing line
\* order, one per line at most, so the returned order is strictly increasing
\* by (File, Line) and the sort has one possible outcome.
C34_NoDuplicatePlace ==
    /\ \A w \in DOMAIN worker :
          /\ StrictlyIncreasing(worker[w].matches)
          /\ worker[w].pc \in {"scan", "count", "emit", "add", "ceiling"} =>
                \A k \in 1..Len(worker[w].matches) :
                    worker[w].matches[k].File = tree[worker[w].file].path
    /\ \A i \in 1..Len(Emitted) : \A j \in 1..Len(Emitted) :
          i # j => <<Emitted[i].File, Emitted[i].Line>>
                      # <<Emitted[j].File, Emitted[j].Line>>
    /\ pc = "finish" => Cardinality(SortSlice(collected)) = 1
    /\ (Returned /\ ~results.isNil) => StrictlyIncreasing(results.Matches)

\* A search has returned two matches of one file and one of another, which
\* it had collected in another order.
C34_Witness ==
    /\ Returned
    /\ ~results.isNil
    /\ Len(results.Matches) = 3
    /\ results.Matches[1].File = results.Matches[2].File
    /\ results.Matches[2].File # results.Matches[3].File
    /\ collected # results.Matches

\* The (file, line) pairs of the lines of the counted files that match.
MatchingLinesOfScanned ==
    UNION {{<<tree[i].path, n>> :
               n \in {n \in 1..Len(tree[i].lines) : LineMatches(tree[i].lines[n])}} :
           i \in CountedFiles}

\* C35: a MaxResults of 0 or less sets no ceiling in the worker, the scanner
\* or the aggregator: an uncancelled search returns every matching line of
\* every scanned file, and every worker runs until the work queue is closed
\* and drained.
C35_NoCeiling ==
    config.MaxResults <= 0 =>
        /\ ~openedAtCeiling /\ ~sentAtCeiling
        /\ (started /\ pc \in {"finish", "FindReturn", "format", "done"}) => sawClose
        /\ ~timedOut =>
              \A w \in DOMAIN worker :
                  worker[w].pc = "done" => (filePathsClosed /\ filePaths = <<>>)
        /\ (Returned /\ err = NoError /\ ~timedOut) =>
              /\ Places(results.Matches) = MatchingLinesOfScanned
              /\ Len(results.Matches) = Cardinality(MatchingLinesOfScanned)
              /\ config.MaxWorkers >= 1 => CountedFiles = ScannableFiles

\* A search with MaxResults = -1 by two workers has returned the three
\* matching lines of two files.
C35_Witness ==
    /\ Returned
    /\ config.MaxResults < 0
    /\ config.MaxWorkers = 2
    /\ ~timedOut
    /\ Len(results.Matches) = 3
    /\ results.Stats.FilesScanned = 2

\* The search root is a directory whose own name starts with a dot.
HiddenRoot == tree[1].isDir /\ ~tree[1].walkErr /\ DotNamed(1)

\* C36: the hidden-directory rule applies to the search root too: with
\* IncludeHidden false and a root whose base name starts with "." the walk
\* is pruned at the root, no path is enqueued and the search returns zero
\* matches, FilesScanned = 0 and (for a pattern that compiles) a nil error,
\* whatever the tree contains.
C36_HiddenRootPruned ==
    (~config.IncludeHidden /\ HiddenRoot) =>
        /\ \A i \in 1..Len(tree) : enqueued[i] = 0 /\ opened[i] = 0
        /\ walker.idx \in {0, 1, Len(tree) + 1}
        /\ filesScanned = 0
        /\ resultCount = 0
        /\ Returned =>
              /\ results.Matches = <<>>
              /\ results.Stats.FilesScanned = 0
              /\ ~BadPattern => (err = NoError /\ ~results.isNil)

\* A search for "a" from the root "." by two workers has returned: the walk
\* ended at the root, and the files a and b/a, which hold "a", were never
\* enqueued.
C36_Witness ==
    /\ Returned
    /\ tree = DotRootTree
    /\ config.Pattern = <<"a">>
    /\ config.MaxWorkers = 2
    /\ walker.pc = "done"
    /\ err = NoError
    /\ results.Matches = <<>>

\* The result of a search that found nothing and scanned nothing.
EmptyResults ==
    [Matches |-> <<>>,
     Stats |-> [FilesScanned |-> 0, BytesScanned |-> 0, MatchesFound |-> 0],
     isNil |-> FALSE]

\* The first entry of the tree the walker sends on filePaths, 0 if none.
FirstEnqueue ==
    IF ScannableFiles = {} THEN 0
    ELSE CHOOSE i \in ScannableFiles : \A j \in ScannableFiles : i <= j

\* What holds in every state of a search without workers.
NoWorkerState ==
    /\ DOMAIN worker = {}
    /\ \A i \in 1..Len(tree) : enqueued[i] = 0
    /\ filePaths = <<>> /\ matchChan = <<>> /\ collected = <<>>
    /\ closerPc = "wait" => WaitGroupDone
    /\ (started /\ pc \in {"finish", "FindReturn", "format", "done"}) => sawClose
    /\ walker.pc = "send" => walker.idx = FirstEnqueue
    /\ config.Timeout = 0 => ~ctxDone
    /\ Returned => (~BadPattern => (err = NoError /\ results = EmptyResults))

\* The walker leaves its send only when the context is cancelled.
LeavesSendOnCancel == (walker.pc = "send" /\ walker'.pc # "send") => ctxDone

\* C37: with MaxWorkers = 0 no worker is started, the match stream is closed
\* at once, Search returns an empty result with zero statistics and a nil
\* error whatever the tree contains, and the walker stays blocked on its
\* first enqueue until the context is cancelled, forever without a timeout.
C37_NoWorkers ==
    /\ [](config.MaxWorkers = 0 => NoWorkerState)
    /\ [][config.MaxWorkers = 0 => LeavesSendOnCancel]_vars

\* A search without workers and without timeout of a directory with three
\* files has returned its empty result, and its walker waits to send r/a.
C37_Witness ==
    /\ pc = "done"
    /\ config.MaxWorkers = 0
    /\ config.Timeout = 0
    /\ tree = FlatTree(3)
    /\ results = EmptyResults
    /\ walker.pc = "send"
    /\ walker.idx = 2

\* C38: a search with the empty pattern returns zero matches and a nil error
\* for every tree: the empty pattern is literal, the engine has neither a
\* literal search string nor a compiled regex, no line is reported as
\* matching, and the files are scanned and counted all the same.
C38_EmptyPattern ==
    config.Pattern = <<>> =>
        /\ isLiteralPattern(config.Pattern)
        /\ pc # "Find" => (engine.literalSearch = <<>> /\ ~engine.pattern.valid)
        /\ resultCount = 0
        /\ matchChan = <<>> /\ collected = <<>>
        /\ \A w \in DOMAIN worker :
              worker[w].pc \in {"scan", "count", "emit", "add", "ceiling"}
                  => worker[w].matches = <<>>
        /\ Returned => (err = NoError /\ ~results.isNil /\ results.Matches = <<>>)
        /\ (Returned /\ ~timedOut /\ config.MaxWorkers >= 1) =>
              /\ results.Stats.FilesScanned = Cardinality(GoodFiles)
              /\ results.Stats.BytesScanned = TotalBytes(GoodFiles)
              /\ \A i \in GoodFiles : opened[i] = 1 /\ counted[i] = 1

\* The empty pattern was searched in the mixed tree with hidden entries
\* included: four files holding lines were scanned and counted, and no match
\* was returned.
C38_Witness ==
    /\ pc = "done"
    /\ config.Pattern = <<>>
    /\ tree = MixedTree
    /\ config.IncludeHidden
    /\ ~timedOut
    /\ results.Matches = <<>>
    /\ results.Stats.FilesScanned = 4
    /\ results.Stats.BytesScanned > 0

\* The command of session s was started by a StartCommand that has added the
\* session, and its process has not ended.
StartedAndRunning(s) == session[s].added /\ session[s].state = "running"

\* C39: every command that StartCommand started and that has not yet exited
\* has its own session in the sessions map, in every interleaving of
\* StartCommand calls and wait goroutines, also when the pid of a command
\* that has just exited is given to a new one.
C39_Original ==
    \A s \in SessionIds :
        StartedAndRunning(s) =>
            (session[s].pid \in DOMAIN sessions /\ sessions[session[s].pid] = s)

\* What holds instead: a running command is missing from the map only when
\* it was started under the pid of an earlier command whose wait goroutine
\* has since removed that pid.
C39_ListedUnlessPidReused ==
    \A s \in SessionIds :
        (StartedAndRunning(s) /\ ~InMap(s)) =>
            \E t \in SessionIds \ {s} :
                /\ session[t].pid = session[s].pid
                /\ session[t].state = "reaped"
                /\ session[t].waiter = "end"

\* A command runs under the pid of an earlier one, StartCommand has returned
\* its pid, and the map is empty: the earlier command's goroutine removed it.
C39_RunningUnlisted ==
    \E s \in SessionIds :
        /\ StartedAndRunning(s)
        /\ session[s].waiter = "wait"
        /\ sessions = <<>>
        /\ \A c \in Callers : caller[c].pc = "idle"

\* The step is the successful return of a set_config_value call of c.
SetReturns(c) == SetWrite(c) /\ lastReturn' = Return("set_config_value", SetDone)

\* The file can be neither read nor parsed as a JSON object.
ReadOrParseFails == configFile.kind \in {"absent", "unreadable", "invalid"}

\* Every key the file had when the call of c began, other than the call's
\* key, has the value it had then.
OtherKeysKept(c) ==
    \A k \in DOMAIN setter[c].before.object \ {setter[c].Key} :
        /\ configFile'.kind = "object"
        /\ k \in DOMAIN configFile'.object
        /\ configFile'.object[k] = setter[c].before.object[k]

\* Each caller has made one call, for different keys, and both calls have
\* returned without error.
BothSet ==
    /\ \A c \in Callers :
          setter[c].pc = "idle" /\ setter[c].calls = 1 /\ setter[c].ret = SetDone
    /\ setter[1].Key # setter[2].Key

\* The file holds what the one call of caller c has set.
UpdatePresent(c) ==
    /\ configFile.kind = "object"
    /\ setter[c].Key \in DOMAIN configFile.object
    /\ configFile.object[setter[c].Key] = setter[c].Value

\* C31: HandleSetConfigValue changes the given key only: every other key of
\* the file has the same value after the call, also when two calls for
\* different keys run at a time (both updates are present afterwards); when
\* reading or parsing the file fails, the file is left as it is and an error
\* is returned.
C31_Original ==
    /\ [](BothSet => \A c \in Callers : UpdatePresent(c))
    /\ [][\A c \in Callers : SetReturns(c) => OtherKeysKept(c)]_vars
    /\ [][\A c \in Callers, key \in Keys, value \in Values :
             (SetRead(c, key, value) /\ ReadOrParseFails) =>
                 /\ lastReturn'.op = "set_config_value"
                 /\ lastReturn'.ret.err # NoError
                 /\ setter'[c].pc = "idle"]_vars

\* What a call that returns without error does: the file becomes what the
\* call read, its numbers as float64, with the call's key set; a call that
\* returns an error leaves the file as it is.
C31_WritesWhatItRead ==
    [][\A c \in Callers :
          SetWrite(c) =>
              IF lastReturn'.ret = SetDone
              THEN configFile' =
                      Object(With(Unmarshal(setter[c].before.object),
                                  setter[c].Key, setter[c].Value))
              ELSE configFile' = configFile]_vars

\* Two calls for different keys have both returned without error and the
\* file holds the update of one of them only.
C31_LostUpdate ==
    /\ BothSet
    /\ \E c \in Callers : ~UpdatePresent(c)

\* A call has returned without error and a key it was not given has a value
\* other than before the call.
C31_OtherKeyChanged ==
    \E c \in Callers :
        /\ setter[c].pc = "idle" /\ setter[c].calls = 1 /\ setter[c].ret = SetDone
        /\ \A d \in Callers \ {c} : setter[d].calls = 0
        /\ \E k \in DOMAIN setter[c].before.object \ {setter[c].Key} :
              configFile.object[k] # setter[c].before.object[k]

\* A call has created the file that was not there and returned no error.
C31_CreatedFile ==
    \E c \in Callers :
        /\ setter[c].ret = SetDone
        /\ setter[c].before = NoFile
        /\ \A d \in Callers \ {c} : setter[d].calls = 0
        /\ configFile.kind = "object"

\* What GetCurrentConfig returns once loadConfig has run.
Loaded == <<currentConfig, loadConfigErr>>

\* The step is a call of execute_command that is answered as the list
\* blockedList requires: refused when it names the command, started (or not,
\* when cmd.Start fails) otherwise.
ValidatedAgainst(c, commandStr, blockedList) ==
    IF isCommandBlockedComplex(commandStr, blockedList).blocked
    THEN ReturnsBlocked /\ session' = session
    ELSE \/ caller'[c].pc = "add"
         \/ lastReturn' = Return("execute", StartError)

\* C40: GetCurrentConfig loads the configuration at most once: every call
\* after the first returns the configuration, or the load error, of the
\* first, so a later set_config_value that succeeds does not change the list
\* execute_command validates against.
C40_LoadedOnce ==
    /\ [](loadConfigOnce = "done" => (currentConfig.isNil <=> loadConfigErr # NoError))
    /\ [][loadConfigOnce = "done" => (loadConfigOnce' = "done" /\ Loaded' = Loaded)]_vars
    /\ [][\A c \in Callers :
             ExecuteCommand(c, ListedCommand) =>
                 IF loadConfigErr # NoError
                 THEN lastReturn' = Return("execute", ConfigError)
                         /\ session' = session
                 ELSE ValidatedAgainst(c, ListedCommand, currentConfig.BlockedCommands)]_vars

\* After the default list was loaded, set_config_value has set
\* blockedCommands to the empty list in the file, and the command dd has
\* just been refused all the same.
C40_Witness ==
    /\ loadConfigOnce = "done"
    /\ currentConfig = ServerConfig(DefaultBlockedCommands)
    /\ setter[1].ret = SetDone
    /\ setter[1].Key = "blockedCommands"
    /\ configFile = Object(Member("blockedCommands", List(<<>>)))
    /\ lastReturn = Return("execute", Blocked(ListedCommand))

=============================================================================
